---- MODULE Spec2Model ----
(***************************************************************************)
(* A model of the savings-goal card of the smart-financial-coach frontend  *)
(* (frontend/src/components/SavingsGoalCard.jsx): the persisted goal and   *)
(* its load/save/clear operations, the recurring-charge classifier, the    *)
(* cancellation recommender and the projection, as the JavaScript computes *)
(* them.                                                                   *)
(*                                                                         *)
(* JavaScript numbers are modelled as exact rationals n/d plus NaN and the *)
(* two infinities; strings are sequences of one-character strings.         *)
(***************************************************************************)
EXTENDS Integers, Sequences, FiniteSets, TLC

(***************************************************************************)
(* Numbers                                                                 *)
(***************************************************************************)
Abs(i) == IF i < 0 THEN -i ELSE i

RECURSIVE Gcd(_, _)
Gcd(a, b) == IF b = 0 THEN a ELSE Gcd(b, a % b)

\* the finite number n/d (d > 0), in lowest terms
Num(n, d) ==
    LET g == Gcd(Abs(n), d)
    IN  [t |-> "num", n |-> n \div g, d |-> d \div g]

Whole(n) == Num(n, 1)
NaN == [t |-> "nan", n |-> 0, d |-> 1]
PosInf == [t |-> "inf", n |-> 1, d |-> 1]
NegInf == [t |-> "inf", n |-> -1, d |-> 1]

\* Number.isFinite on a number
IsFinite(x) == x.t = "num"

\* a < b as JavaScript compares numbers (false whenever NaN is involved)
Less(a, b) ==
    CASE a.t = "nan" \/ b.t = "nan" -> FALSE
      [] a.t = "num" /\ b.t = "num" -> a.n * b.d < b.n * a.d
      [] a.t = "inf" /\ b.t = "inf" -> a.n < b.n
      [] a.t = "inf" -> a.n < 0
      [] OTHER -> b.n > 0

Greater(a, b) == Less(b, a)
LessEq(a, b) == a.t # "nan" /\ b.t # "nan" /\ ~Less(b, a)
GreaterEq(a, b) == LessEq(b, a)

\* a / k for a positive integer literal k
DivBy(a, k) == IF a.t = "num" THEN Num(a.n, a.d * k) ELSE a

\* a - b
Minus(a, b) ==
    CASE a.t = "nan" \/ b.t = "nan" -> NaN
      [] a.t = "num" /\ b.t = "num" -> Num(a.n * b.d - b.n * a.d, a.d * b.d)
      [] a.t = "inf" /\ b.t = "inf" -> IF a.n = b.n THEN NaN ELSE a
      [] a.t = "inf" -> a
      [] OTHER -> IF b.n > 0 THEN NegInf ELSE PosInf

\* a + b
Plus(a, b) ==
    CASE a.t = "nan" \/ b.t = "nan" -> NaN
      [] a.t = "num" /\ b.t = "num" -> Num(a.n * b.d + b.n * a.d, a.d * b.d)
      [] a.t = "inf" /\ b.t = "inf" -> IF a.n = b.n THEN a ELSE NaN
      [] a.t = "inf" -> a
      [] OTHER -> b

(***************************************************************************)
(* Strings                                                                 *)
(***************************************************************************)
WhiteSpace == {" ", "\t"}
Digits == <<"0", "1", "2", "3", "4", "5", "6", "7", "8", "9">>
UpperCase == <<"A", "B", "C", "D", "E", "F", "G", "H", "I", "J", "K", "L", "M",
               "N", "O", "P", "Q", "R", "S", "T", "U", "V", "W", "X", "Y", "Z">>
LowerCase == <<"a", "b", "c", "d", "e", "f", "g", "h", "i", "j", "k", "l", "m",
               "n", "o", "p", "q", "r", "s", "t", "u", "v", "w", "x", "y", "z">>

IsDigit(c) == \E i \in 1..10 : Digits[i] = c
DigitVal(c) == (CHOOSE i \in 1..10 : Digits[i] = c) - 1

RECURSIVE TrimStart(_)
TrimStart(s) ==
    IF s # <<>> /\ Head(s) \in WhiteSpace THEN TrimStart(Tail(s)) ELSE s

RECURSIVE TrimEnd(_)
TrimEnd(s) ==
    IF s # <<>> /\ s[Len(s)] \in WhiteSpace
    THEN TrimEnd(SubSeq(s, 1, Len(s) - 1))
    ELSE s

\* String.prototype.trim
Trim(s) == TrimEnd(TrimStart(s))

ToLowerChar(c) ==
    IF \E i \in 1..26 : UpperCase[i] = c
    THEN LowerCase[CHOOSE i \in 1..26 : UpperCase[i] = c]
    ELSE c

\* String.prototype.toLowerCase
ToLowerCase(s) == [i \in 1..Len(s) |-> ToLowerChar(s[i])]

\* s.replace(/\s+/g, " "): every run of whitespace becomes one space
RECURSIVE CollapseWhiteSpace(_)
CollapseWhiteSpace(s) ==
    IF s = <<>> THEN <<>>
    ELSE IF Head(s) \in WhiteSpace
         THEN <<" ">> \o CollapseWhiteSpace(TrimStart(s))
         ELSE <<Head(s)>> \o CollapseWhiteSpace(Tail(s))

\* String.prototype.includes
Includes(s, p) ==
    \/ p = <<>>
    \/ \E i \in 0..(Len(s) - Len(p)) : s[i + 1] = p[1] /\ SubSeq(s, i + 1, i + Len(p)) = p

RECURSIVE DigitsValue(_)
DigitsValue(s) ==
    IF s = <<>> THEN 0
    ELSE 10 * DigitsValue(SubSeq(s, 1, Len(s) - 1)) + DigitVal(s[Len(s)])

RECURSIVE Pow10(_)
Pow10(k) == IF k = 0 THEN 1 ELSE 10 * Pow10(k - 1)

AllDigits(s) == \A i \in 1..Len(s) : IsDigit(s[i])

\* an unsigned decimal literal: digits, digits.digits, digits. or .digits
IsDecimalLiteral(s) ==
    \/ s # <<>> /\ AllDigits(s)
    \/ \E i \in 1..Len(s) :
          /\ s[i] = "."
          /\ AllDigits(SubSeq(s, 1, i - 1))
          /\ AllDigits(SubSeq(s, i + 1, Len(s)))
          /\ Len(s) > 1

DecimalValue(s) ==
    IF AllDigits(s) THEN Whole(DigitsValue(s))
    ELSE LET i == CHOOSE j \in 1..Len(s) : s[j] = "."
             whole == SubSeq(s, 1, i - 1)
             frac == SubSeq(s, i + 1, Len(s))
         IN  Num(DigitsValue(whole) * Pow10(Len(frac)) + DigitsValue(frac),
                 Pow10(Len(frac)))

Negate(x) == IF x.t = "nan" THEN x ELSE [x EXCEPT !.n = -x.n]

INFINITY_TEXT == <<"I", "n", "f", "i", "n", "i", "t", "y">>

UnsignedToNumber(s) ==
    CASE s = INFINITY_TEXT -> PosInf
      [] IsDecimalLiteral(s) -> DecimalValue(s)
      [] OTHER -> NaN

\* Number(string): whitespace is trimmed, the empty string is 0, a signed
\* decimal literal or Infinity is its value, anything else is NaN.
\* (Exponent and 0x/0o/0b literals are not modelled; no input uses them.)
StringToNumber(s) ==
    LET u == Trim(s)
    IN  CASE u = <<>> -> Whole(0)
          [] Head(u) = "-" -> Negate(UnsignedToNumber(Tail(u)))
          [] Head(u) = "+" -> UnsignedToNumber(Tail(u))
          [] OTHER -> UnsignedToNumber(u)

RECURSIVE NatToString(_)
NatToString(n) ==
    IF n < 10 THEN <<Digits[n + 1]>>
    ELSE NatToString(n \div 10) \o <<Digits[(n % 10) + 1]>>

\* the decimal expansion of r/d (0 <= r < d), at most k digits
RECURSIVE FractionDigits(_, _, _)
FractionDigits(r, d, k) ==
    IF r = 0 \/ k = 0 THEN <<>>
    ELSE <<Digits[((10 * r) \div d) + 1]>> \o FractionDigits((10 * r) % d, d, k - 1)

\* Number.prototype.toString for the values the model uses (no exponent form)
NumberToString(x) ==
    CASE x.t = "nan" -> <<"N", "a", "N">>
      [] x.t = "inf" -> IF x.n > 0 THEN INFINITY_TEXT ELSE <<"-">> \o INFINITY_TEXT
      [] OTHER ->
         LET a == Abs(x.n)
             sign == IF x.n < 0 THEN <<"-">> ELSE <<>>
             frac == FractionDigits(a % x.d, x.d, 17)
         IN  sign \o NatToString(a \div x.d)
                  \o (IF frac = <<>> THEN <<>> ELSE <<".">> \o frac)

(***************************************************************************)
(* JavaScript values                                                       *)
(***************************************************************************)
Undefined == [t |-> "undefined"]
Null == [t |-> "null"]
BoolV(b) == [t |-> "boolean", b |-> b]
NumV(x) == [t |-> "number", v |-> x]
StrV(s) == [t |-> "string", s |-> s]
\* an object: m maps its own property names to values
ObjV(m) == [t |-> "object", m |-> m]

\* ToBoolean
Truthy(v) ==
    CASE v.t = "undefined" -> FALSE
      [] v.t = "null" -> FALSE
      [] v.t = "boolean" -> v.b
      [] v.t = "number" -> v.v.t # "nan" /\ v.v.n # 0
      [] v.t = "string" -> v.s # <<>>
      [] OTHER -> TRUE

\* a || b
OrElse(a, b) == IF Truthy(a) THEN a ELSE b

\* Number(v)
ToNumber(v) ==
    CASE v.t = "undefined" -> NaN
      [] v.t = "null" -> Whole(0)
      [] v.t = "boolean" -> IF v.b THEN Whole(1) ELSE Whole(0)
      [] v.t = "number" -> v.v
      [] v.t = "string" -> StringToNumber(v.s)
      [] OTHER -> NaN

OBJECT_TEXT ==
    <<"[", "o", "b", "j", "e", "c", "t", " ", "O", "b", "j", "e", "c", "t", "]">>

\* String(v)
JSString(v) ==
    CASE v.t = "undefined" -> <<"u", "n", "d", "e", "f", "i", "n", "e", "d">>
      [] v.t = "null" -> <<"n", "u", "l", "l">>
      [] v.t = "boolean" -> IF v.b THEN <<"t", "r", "u", "e">>
                                   ELSE <<"f", "a", "l", "s", "e">>
      [] v.t = "number" -> NumberToString(v.v)
      [] v.t = "string" -> v.s
      [] OTHER -> OBJECT_TEXT

\* v.key for a v that is neither null nor undefined
Get(v, key) ==
    IF v.t = "object" /\ key \in DOMAIN v.m THEN v.m[key] ELSE Undefined

\* v?.key
GetOpt(v, key) == IF v.t \in {"undefined", "null"} THEN Undefined ELSE Get(v, key)

(***************************************************************************)
(* JSON text.  A text is held by its structure: literals, a number token   *)
(* (its digits), a string token (its escaped characters) or an object of   *)
(* members; "empty" is the empty string and "invalid" any text JSON.parse  *)
(* rejects.                                                                *)
(***************************************************************************)
RECURSIVE EscapeString(_)
EscapeString(s) ==
    IF s = <<>> THEN <<>>
    ELSE LET c == Head(s)
         IN  (CASE c = "\"" -> <<"\\", "\"">>
                [] c = "\\" -> <<"\\", "\\">>
                [] c = "\t" -> <<"\\", "t">>
                [] OTHER -> <<c>>) \o EscapeString(Tail(s))

RECURSIVE UnescapeString(_)
UnescapeString(s) ==
    IF s = <<>> THEN <<>>
    ELSE IF Head(s) = "\\" /\ Len(s) >= 2
         THEN <<(IF s[2] = "t" THEN "\t" ELSE s[2])>> \o UnescapeString(SubSeq(s, 3, Len(s)))
         ELSE <<Head(s)>> \o UnescapeString(Tail(s))

\* JSON.stringify of a member value (undefined members are left out by the caller)
StringifyScalar(v) ==
    CASE v.t = "null" -> [j |-> "null"]
      [] v.t = "boolean" -> [j |-> IF v.b THEN "true" ELSE "false"]
      [] v.t = "number" -> IF IsFinite(v.v)
                           THEN [j |-> "number", tok |-> NumberToString(v.v)]
                           ELSE [j |-> "null"]
      [] v.t = "string" -> [j |-> "string", tok |-> EscapeString(v.s)]
      [] OTHER -> [j |-> "object", m |-> <<>>]

\* JSON.stringify(v) for v a scalar or an object of scalars
JSONStringify(v) ==
    IF v.t = "object"
    THEN [j |-> "object",
          m |-> [k \in {x \in DOMAIN v.m : v.m[x].t # "undefined"} |->
                    StringifyScalar(v.m[k])]]
    ELSE StringifyScalar(v)

ParseScalar(x) ==
    CASE x.j = "null" -> Null
      [] x.j = "true" -> BoolV(TRUE)
      [] x.j = "false" -> BoolV(FALSE)
      [] x.j = "number" -> NumV(StringToNumber(x.tok))
      [] x.j = "string" -> StrV(UnescapeString(x.tok))
      [] OTHER -> ObjV(<<>>)

\* JSON.parse(text): ok = FALSE stands for the SyntaxError it throws
JSONParse(x) ==
    CASE x.j \in {"empty", "invalid"} -> [ok |-> FALSE, v |-> Undefined]
      [] x.j = "object" ->
            [ok |-> TRUE, v |-> ObjV([k \in DOMAIN x.m |-> ParseScalar(x.m[k])])]
      [] OTHER -> [ok |-> TRUE, v |-> ParseScalar(x)]

(***************************************************************************)
(* The goal store: localStorage under STORAGE_KEY                          *)
(***************************************************************************)
\* localStorage.getItem gives null when the key is absent
NoItem == [j |-> "none"]

NoGoal == [set |-> FALSE]
Goal(amt, date) == [set |-> TRUE, targetAmount |-> amt, targetDate |-> date]

GoalObject(g) ==
    ObjV([k \in {"targetAmount", "targetDate"} |->
            IF k = "targetAmount" THEN NumV(g.targetAmount) ELSE StrV(g.targetDate)])

\* the amount and date checks shared by loadGoal and onSave
AmountOk(amt) == IsFinite(amt) /\ ~LessEq(amt, Whole(0))
DateOk(date) == date # <<>>

\* the body of loadGoal's try block: threw = TRUE is an exception leaving it
LoadGoalTry(raw) ==
    IF raw.j \in {"none", "empty"} THEN [threw |-> FALSE, value |-> NoGoal]
    ELSE LET p == JSONParse(raw)
         IN  IF ~p.ok THEN [threw |-> TRUE, value |-> NoGoal]
             ELSE IF ~Truthy(p.v) THEN [threw |-> FALSE, value |-> NoGoal]
             ELSE LET amt == ToNumber(Get(p.v, "targetAmount"))
                      date == Trim(JSString(OrElse(Get(p.v, "targetDate"), StrV(<<>>))))
                  IN  IF ~AmountOk(amt) THEN [threw |-> FALSE, value |-> NoGoal]
                      ELSE IF ~DateOk(date) THEN [threw |-> FALSE, value |-> NoGoal]
                      ELSE [threw |-> FALSE, value |-> Goal(amt, date)]

\* a variant that lets the exception of JSON.parse escape
LoadGoalNoCatch(raw) == LoadGoalTry(raw)

\* loadGoal(): the catch turns any exception into null
loadGoal(raw) ==
    LET r == LoadGoalTry(raw)
    IN  IF r.threw THEN [threw |-> FALSE, value |-> NoGoal] ELSE r

\* a variant that updates the stored record member by member and keeps the
\* date of a record already there
SaveGoalKeepDate(raw, goal) ==
    IF raw.j = "object" /\ "targetDate" \in DOMAIN raw.m
    THEN [j |-> "object",
          m |-> [k \in {"targetAmount", "targetDate"} |->
                    IF k = "targetDate" THEN raw.m[k]
                    ELSE StringifyScalar(NumV(goal.targetAmount))]]
    ELSE JSONStringify(GoalObject(goal))

\* a variant that keeps the amount of a record already there
SaveGoalKeepAmount(raw, goal) ==
    IF raw.j = "object" /\ "targetAmount" \in DOMAIN raw.m
    THEN [j |-> "object",
          m |-> [k \in {"targetAmount", "targetDate"} |->
                    IF k = "targetAmount" THEN raw.m[k]
                    ELSE StringifyScalar(StrV(goal.targetDate))]]
    ELSE JSONStringify(GoalObject(goal))

\* saveGoal(goal): the new content of the key
saveGoal(raw, goal) == JSONStringify(GoalObject(goal))

\* a variant that removes nothing
ClearGoalKeeps(raw) == raw

\* clearGoal(): the key is removed
clearGoal(raw) == NoItem

(***************************************************************************)
(* The recurring-charge classifier                                         *)
(***************************************************************************)
SUBS_ALLOW_PATTERNS == <<
    <<"n", "e", "t", "f", "l", "i", "x">>,
    <<"s", "p", "o", "t", "i", "f", "y">>,
    <<"h", "u", "l", "u">>,
    <<"d", "i", "s", "n", "e", "y">>,
    <<"p", "r", "i", "m", "e">>,
    <<"a", "m", "a", "z", "o", "n", " ", "p", "r", "i", "m", "e">>,
    <<"a", "p", "p", "l", "e">>,
    <<"i", "c", "l", "o", "u", "d">>,
    <<"g", "o", "o", "g", "l", "e">>,
    <<"y", "o", "u", "t", "u", "b", "e">>,
    <<"m", "i", "c", "r", "o", "s", "o", "f", "t">>,
    <<"o", "f", "f", "i", "c", "e">>,
    <<"a", "d", "o", "b", "e">>,
    <<"d", "r", "o", "p", "b", "o", "x">>,
    <<"g", "i", "t", "h", "u", "b">>,
    <<"n", "o", "t", "i", "o", "n">>,
    <<"s", "l", "a", "c", "k">>,
    <<"z", "o", "o", "m">>,
    <<"o", "p", "e", "n", "a", "i">>,
    <<"c", "h", "a", "t", "g", "p", "t">>,
    <<"g", "y", "m">>,
    <<"p", "l", "a", "n", "e", "t", " ", "f", "i", "t", "n", "e", "s", "s">>,
    <<"p", "e", "l", "o", "t", "o", "n">> >>

SUBS_BLOCK_PATTERNS == <<
    <<"r", "e", "n", "t">>,
    <<"m", "o", "r", "t", "g", "a", "g", "e">>,
    <<"p", "r", "o", "p", "e", "r", "t", "y">>,
    <<"h", "o", "a">>,
    <<"l", "o", "a", "n">>,
    <<"t", "u", "i", "t", "i", "o", "n">>,
    <<"s", "t", "u", "d", "e", "n", "t">>,
    <<"i", "n", "s", "u", "r", "a", "n", "c", "e">>,
    <<"t", "a", "x">>,
    <<"f", "e", "e">>,
    <<"i", "n", "t", "e", "r", "e", "s", "t">>,
    <<"p", "a", "y", "m", "e", "n", "t">>,
    <<"t", "r", "a", "n", "s", "f", "e", "r">>,
    <<"z", "e", "l", "l", "e">>,
    <<"v", "e", "n", "m", "o">>,
    <<"p", "a", "y", "p", "a", "l">>,
    <<"c", "a", "s", "h", " ", "a", "p", "p">>,
    <<"a", "t", "m">>,
    <<"a", "i", "r">>,
    <<"a", "i", "r", "l", "i", "n", "e", "s">>,
    <<"f", "l", "i", "g", "h", "t">>,
    <<"h", "o", "t", "e", "l">>,
    <<"u", "b", "e", "r">>,
    <<"l", "y", "f", "t">> >>

EmptyString == StrV(<<>>)
Zero == NumV(Whole(0))

MONTHLY_TEXT == <<"m", "o", "n", "t", "h", "l", "y">>
ANNUAL_TEXT == <<"a", "n", "n", "u", "a", "l">>

\* normalizeMerchant(s): String(s || "").trim().toLowerCase().replace(/\s+/g, " ")
normalizeMerchant(s) ==
    CollapseWhiteSpace(ToLowerCase(Trim(JSString(OrElse(s, EmptyString)))))

\* a variant in which a match of the allow list overrides the block list
BlockedUnlessAllowed(m) ==
    /\ \E i \in 1..Len(SUBS_BLOCK_PATTERNS) : Includes(m, SUBS_BLOCK_PATTERNS[i])
    /\ ~\E i \in 1..Len(SUBS_ALLOW_PATTERNS) : Includes(m, SUBS_ALLOW_PATTERNS[i])

\* the name contains a block-list term
HasBlockedTerm(m) ==
    \E i \in 1..Len(SUBS_BLOCK_PATTERNS) : Includes(m, SUBS_BLOCK_PATTERNS[i])

\* Number(row?.annualized_cost || 0), the sort key and the summand of cancelMonthly
AnnualizedCost(row) == ToNumber(OrElse(GetOpt(row, "annualized_cost"), Zero))

\* a variant that bounds avg_amount whatever the annualized cost
MonthlyAmountFromAvg(row) == ToNumber(OrElse(GetOpt(row, "avg_amount"), Zero))

\* monthlyAmount of looksLikeRealSubscription: annualized_cost / 12 when that
\* is finite and > 0, avg_amount otherwise
MonthlyAmount(row) ==
    LET avg == ToNumber(OrElse(GetOpt(row, "avg_amount"), Zero))
        monthly == DivBy(AnnualizedCost(row), 12)
    IN  IF IsFinite(monthly) /\ Greater(monthly, Whole(0)) THEN monthly ELSE avg

\* a variant without the confidence check
LooksRealIgnoringConfidence(row) ==
    LET m == normalizeMerchant(GetOpt(row, "merchant"))
        cadence == ToLowerCase(JSString(OrElse(GetOpt(row, "cadence"), EmptyString)))
        avg == ToNumber(OrElse(GetOpt(row, "avg_amount"), Zero))
        monthlyAmount == MonthlyAmount(row)
    IN  CASE m = <<>> -> FALSE
          [] cadence # MONTHLY_TEXT /\ cadence # ANNUAL_TEXT -> FALSE
          [] HasBlockedTerm(m) -> FALSE
          [] ~IsFinite(avg) \/ LessEq(avg, Whole(0)) -> FALSE
          [] Less(monthlyAmount, Whole(2)) -> FALSE
          [] Greater(monthlyAmount, Whole(120)) -> FALSE
          [] OTHER -> TRUE

looksLikeRealSubscription(row) ==
    LET m == normalizeMerchant(GetOpt(row, "merchant"))
        cadence == ToLowerCase(JSString(OrElse(GetOpt(row, "cadence"), EmptyString)))
        avg == ToNumber(OrElse(GetOpt(row, "avg_amount"), Zero))
        monthlyAmount == MonthlyAmount(row)
        conf == ToNumber(OrElse(GetOpt(row, "confidence"), Zero))
    IN  CASE m = <<>> -> FALSE
          [] cadence # MONTHLY_TEXT /\ cadence # ANNUAL_TEXT -> FALSE
          [] HasBlockedTerm(m) -> FALSE
          [] ~IsFinite(avg) \/ LessEq(avg, Whole(0)) -> FALSE
          [] Less(monthlyAmount, Whole(2)) -> FALSE
          [] Greater(monthlyAmount, Whole(120)) -> FALSE
          [] ~IsFinite(conf) \/ Less(conf, Num(45, 100)) -> FALSE
          [] OTHER -> TRUE

isPreferredSubscription(row) ==
    LET m == normalizeMerchant(GetOpt(row, "merchant"))
    IN  IF m = <<>> THEN FALSE
        ELSE \E i \in 1..Len(SUBS_ALLOW_PATTERNS) : Includes(m, SUBS_ALLOW_PATTERNS[i])

(***************************************************************************)
(* Arithmetic of the projection                                            *)
(***************************************************************************)
\* a * b
Times(a, b) ==
    CASE a.t = "nan" \/ b.t = "nan" -> NaN
      [] a.t = "num" /\ b.t = "num" -> Num(a.n * b.n, a.d * b.d)
      [] a.n = 0 \/ b.n = 0 -> NaN
      [] OTHER -> IF (a.n > 0) = (b.n > 0) THEN PosInf ELSE NegInf

\* a / b
Over(a, b) ==
    CASE a.t = "nan" \/ b.t = "nan" -> NaN
      [] a.t = "inf" /\ b.t = "inf" -> NaN
      [] a.t = "inf" -> IF (a.n > 0) = (b.n >= 0) THEN PosInf ELSE NegInf
      [] b.t = "inf" -> Whole(0)
      [] b.n = 0 -> IF a.n = 0 THEN NaN ELSE IF a.n > 0 THEN PosInf ELSE NegInf
      [] OTHER -> IF b.n > 0 THEN Num(a.n * b.d, a.d * b.n)
                             ELSE Num(-(a.n * b.d), a.d * (-b.n))

\* Math.ceil
MathCeil(x) == IF x.t = "num" THEN Whole(-((-x.n) \div x.d)) ELSE x

\* Math.round: the nearest integer, halves upwards
MathRound(x) == IF x.t = "num" THEN Whole((2 * x.n + x.d) \div (2 * x.d)) ELSE x

\* Math.max and Math.min of two numbers
MathMax(a, b) ==
    IF a.t = "nan" \/ b.t = "nan" THEN NaN ELSE IF Less(a, b) THEN b ELSE a

MathMin(a, b) ==
    IF a.t = "nan" \/ b.t = "nan" THEN NaN ELSE IF Less(b, a) THEN b ELSE a

(***************************************************************************)
(* Dates.  A Date is its time value counted in days (a rational) since     *)
(* local midnight of 2026-01-01, or invalid (time value NaN).              *)
(***************************************************************************)
InvalidDate == [valid |-> FALSE, days |-> NaN]
DateAt(days) == [valid |-> TRUE, days |-> days]

IsLeapYear(y) == (y % 4 = 0 /\ y % 100 # 0) \/ y % 400 = 0

DaysInMonth(y, m) ==
    CASE m = 2 -> IF IsLeapYear(y) THEN 29 ELSE 28
      [] m \in {4, 6, 9, 11} -> 30
      [] OTHER -> 31

\* days from 0000-03-01 to y-m-d in the proleptic Gregorian calendar
DaysFromCivil(y, m, d) ==
    LET yy == IF m <= 2 THEN y - 1 ELSE y
        mm == IF m > 2 THEN m - 3 ELSE m + 9
    IN  365 * yy + (yy \div 4) - (yy \div 100) + (yy \div 400)
            + ((153 * mm + 2) \div 5) + (d - 1)

T_MIDNIGHT == <<"T", "0", "0", ":", "0", "0", ":", "0", "0">>

\* new Date(s) for s in the date-time form YYYY-MM-DDTHH:mm:ss (local time);
\* any other text, and any field out of range, gives an invalid Date
ParseDateTime(s) ==
    LET digitsAt == {1, 2, 3, 4, 6, 7, 9, 10, 12, 13, 15, 16, 18, 19}
        wellFormed ==
            /\ Len(s) = 19
            /\ \A i \in digitsAt : IsDigit(s[i])
            /\ s[5] = "-" /\ s[8] = "-" /\ s[11] = "T" /\ s[14] = ":" /\ s[17] = ":"
    IN  IF ~wellFormed THEN InvalidDate
        ELSE LET y == DigitsValue(SubSeq(s, 1, 4))
                 m == DigitsValue(SubSeq(s, 6, 7))
                 d == DigitsValue(SubSeq(s, 9, 10))
                 hh == DigitsValue(SubSeq(s, 12, 13))
                 mi == DigitsValue(SubSeq(s, 15, 16))
                 ss == DigitsValue(SubSeq(s, 18, 19))
             IN  IF \/ m < 1 \/ m > 12 \/ d < 1 \/ d > DaysInMonth(y, m)
                    \/ hh > 23 \/ mi > 59 \/ ss > 59
                 THEN InvalidDate
                 ELSE DateAt(Plus(Whole(DaysFromCivil(y, m, d) - DaysFromCivil(2026, 1, 1)),
                                  Num(hh * 3600 + mi * 60 + ss, 86400)))

\* a variant without the floor of one month
MonthsBetweenCeilOnly(now, target) ==
    IF ~now.valid \/ ~target.valid THEN Whole(1)
    ELSE MathCeil(Over(Minus(target.days, now.days), Num(3044, 100)))

\* a variant that counts months of 30 days
MonthsBetweenThirtyDays(now, target) ==
    IF ~now.valid \/ ~target.valid THEN Whole(1)
    ELSE IF LessEq(Minus(target.days, now.days), Whole(0)) THEN Whole(1)
    ELSE MathMax(Whole(1), MathCeil(Over(Minus(target.days, now.days), Whole(30))))

\* monthsBetween(now, target)
monthsBetween(now, target) ==
    IF ~now.valid THEN Whole(1)
    ELSE IF ~target.valid THEN Whole(1)
    ELSE LET days == Minus(target.days, now.days)
         IN  IF LessEq(days, Whole(0)) THEN Whole(1)
             ELSE MathMax(Whole(1), MathCeil(Over(days, Num(3044, 100))))

(***************************************************************************)
(* The recommendation and the projection: the useMemo "computed"           *)
(***************************************************************************)
\* the comparator of both sorts: Number(b.annualized_cost || 0) - Number(a.annualized_cost || 0)
CompareByCost(a, b) == Minus(AnnualizedCost(b), AnnualizedCost(a))

\* a variant that puts x in front of the elements it ties with
RECURSIVE InsertBeforeTies(_, _)
InsertBeforeTies(sorted, x) ==
    IF sorted = <<>> THEN <<x>>
    ELSE IF GreaterEq(CompareByCost(Head(sorted), x), Whole(0))
         THEN <<x>> \o sorted
         ELSE <<Head(sorted)>> \o InsertBeforeTies(Tail(sorted), x)

\* x goes in front of the first element it must precede (comparator > 0 for
\* the pair), behind every element it ties with: the sort is stable
RECURSIVE InsertSorted(_, _)
InsertSorted(sorted, x) ==
    IF sorted = <<>> THEN <<x>>
    ELSE IF Greater(CompareByCost(Head(sorted), x), Whole(0))
         THEN <<x>> \o sorted
         ELSE <<Head(sorted)>> \o InsertSorted(Tail(sorted), x)

\* [...rows].sort(comparator): Array.prototype.sort is stable
RECURSIVE SortByCost(_)
SortByCost(rows) ==
    IF rows = <<>> THEN <<>>
    ELSE InsertSorted(SortByCost(SubSeq(rows, 1, Len(rows) - 1)), rows[Len(rows)])

NotPreferred(row) == ~isPreferredSubscription(row)

\* a variant that also admits every row with a preferred merchant name
CandidatesOrPreferred(rows) ==
    SelectSeq(rows, LAMBDA r : looksLikeRealSubscription(r) \/ isPreferredSubscription(r))

\* a variant that hands every record of the feed on, unfiltered
CandidatesUnfiltered(rows) == rows

\* candidates = (subs || []).filter(looksLikeRealSubscription)
Candidates(rows) == SelectSeq(rows, looksLikeRealSubscription)

\* a variant that sorts all candidates by cost, whatever their partition
RankedByCost(candidates) == SortByCost(candidates)

\* a variant that puts the fallback partition in front
RankedFallbackFirst(candidates) ==
    SortByCost(SelectSeq(candidates, NotPreferred))
        \o SortByCost(SelectSeq(candidates, isPreferredSubscription))

\* [...sortedPreferred, ...sortedFallback]: each partition sorted on its own
Ranked(candidates) ==
    SortByCost(SelectSeq(candidates, isPreferredSubscription))
        \o SortByCost(SelectSeq(candidates, NotPreferred))

\* a variant in which the comparator sort is called on the feed itself
ArraysAfterSortingFeed(rows) ==
    [subs |-> SortByCost(rows),
     candidates |-> Candidates(SortByCost(rows)),
     sortedPreferred |-> SelectSeq(Candidates(SortByCost(rows)), isPreferredSubscription),
     sortedFallback |-> SelectSeq(Candidates(SortByCost(rows)), NotPreferred)]

\* the arrays one evaluation leaves behind, by the name that holds them:
\* filter and the spread [...x] return a new array and leave theirs alone,
\* sort orders the array it is called on, here the two copies
ArraysAfter(rows) ==
    [subs |-> rows,
     candidates |-> Candidates(rows),
     sortedPreferred |-> SortByCost(SelectSeq(Candidates(rows), isPreferredSubscription)),
     sortedFallback |-> SortByCost(SelectSeq(Candidates(rows), NotPreferred))]

\* all.slice(0, 2)
FirstTwo(all) == SubSeq(all, 1, IF Len(all) < 2 THEN Len(all) ELSE 2)

\* topTwo = [...sortedPreferred, ...sortedFallback].slice(0, 2)
TopTwo(rows) == FirstTwo(Ranked(Candidates(rows)))

RECURSIVE SumCost(_)
SumCost(rows) ==
    IF rows = <<>> THEN Whole(0)
    ELSE Plus(SumCost(SubSeq(rows, 1, Len(rows) - 1)), AnnualizedCost(rows[Len(rows)]))

\* a variant that leaves the yearly sum undivided
CancelYearly(topTwo) == SumCost(topTwo)

\* cancelMonthly = topTwo.reduce((sum, r) => sum + Number(r.annualized_cost || 0), 0) / 12
CancelMonthly(topTwo) == DivBy(SumCost(topTwo), 12)

\* a variant that leaves the ratio as a fraction of 1
RawPctAsFraction(cancelMonthly, requiredMonthly) ==
    IF Greater(requiredMonthly, Whole(0))
    THEN Over(cancelMonthly, requiredMonthly)
    ELSE Whole(0)

\* rawPct = requiredMonthly > 0 ? (cancelMonthly / requiredMonthly) * 100 : 0
RawPct(cancelMonthly, requiredMonthly) ==
    IF Greater(requiredMonthly, Whole(0))
    THEN Times(Over(cancelMonthly, requiredMonthly), Whole(100))
    ELSE Whole(0)

\* a variant without the upper limit
CoveragePctUnbounded(rawPct) == MathMax(Whole(0), rawPct)

\* coveragePct = Math.max(0, Math.min(999, rawPct))
CoveragePct(rawPct) == MathMax(Whole(0), MathMin(Whole(999), rawPct))

\* a variant that drops the fraction instead of rounding
CoveragePctDisplayFloor(coveragePct) ==
    MathMin(Whole(250),
            IF coveragePct.t = "num" THEN Whole(coveragePct.n \div coveragePct.d)
            ELSE coveragePct)

\* coveragePctDisplay = Math.min(250, Math.round(coveragePct))
CoveragePctDisplay(coveragePct) == MathMin(Whole(250), MathRound(coveragePct))

\* monthsRemaining = monthsBetween(new Date(), new Date(goal.targetDate + "T00:00:00"))
MonthsRemaining(g, now) ==
    monthsBetween(DateAt(now), ParseDateTime(g.targetDate \o T_MIDNIGHT))

\* requiredMonthly = goal.targetAmount / monthsRemaining
RequiredMonthly(g, monthsRemaining) == Over(g.targetAmount, monthsRemaining)

NoComputed == [set |-> FALSE]

\* the object computed returns, from its intermediate values
ComputedRecord(monthsRemaining, requiredMonthly, topTwo, cancelMonthly, coveragePct, total) ==
    [set |-> TRUE,
     monthsRemaining |-> monthsRemaining,
     requiredMonthly |-> requiredMonthly,
     topTwo |-> topTwo,
     cancelMonthly |-> cancelMonthly,
     coveragePct |-> coveragePct,
     coveragePctDisplay |-> CoveragePctDisplay(coveragePct),
     totalCandidates |-> total]

ComputedFrom(monthsRemaining, requiredMonthly, topTwo, cancelMonthly, totalCandidates) ==
    ComputedRecord(monthsRemaining, requiredMonthly, topTwo, cancelMonthly,
                   CoveragePct(RawPct(cancelMonthly, requiredMonthly)), totalCandidates)

ComputedWith(g, monthsRemaining, topTwo, totalCandidates) ==
    ComputedFrom(monthsRemaining, RequiredMonthly(g, monthsRemaining), topTwo,
                 CancelMonthly(topTwo), totalCandidates)

\* the callback of useMemo ended in a TypeError
RenderError == [set |-> FALSE, threw |-> TRUE]

IsNullish(v) == v.t \in {"undefined", "null"}

HasNullish(rows) == \E i \in 1..Len(rows) : IsNullish(rows[i])

\* the comparator reads a.annualized_cost and b.annualized_cost of every
\* element of a partition of two or more, the reducer r.annualized_cost of
\* every element of topTwo: a TypeError on null and undefined (which
\* isPreferredSubscription puts in the fallback partition)
ComputedThrows(candidates) ==
    \/ Len(SelectSeq(candidates, NotPreferred)) >= 2 /\ HasNullish(candidates)
    \/ HasNullish(FirstTwo(Ranked(candidates)))

\* a variant whose requiredMonthly divides by the months left at the clock
\* reading without rounding them up
ComputedOfUnrounded(g, candidates, now) ==
    IF ComputedThrows(candidates) THEN RenderError
    ELSE ComputedFrom(MonthsRemaining(g, now),
                      Over(g.targetAmount,
                           MathMax(Whole(1),
                                   Over(Minus(ParseDateTime(g.targetDate \o T_MIDNIGHT).days, now),
                                        Num(3044, 100)))),
                      FirstTwo(Ranked(candidates)),
                      CancelMonthly(FirstTwo(Ranked(candidates))),
                      Len(candidates))

\* computed for a goal g, the filtered feed and the clock reading now (days)
ComputedOf(g, candidates, now) ==
    IF ComputedThrows(candidates) THEN RenderError
    ELSE ComputedWith(g, MonthsRemaining(g, now), FirstTwo(Ranked(candidates)), Len(candidates))

\* computed for goal g, feed rows and the clock reading now (days)
Computed(g, rows, now) ==
    IF ~g.set THEN NoComputed ELSE ComputedOf(g, Candidates(rows), now)

(***************************************************************************)
(* Inputs                                                                  *)
(***************************************************************************)
Cards == {1, 2}

TARGET_AMOUNT == "targetAmount"
TARGET_DATE == "targetDate"

DATE_2030 == <<"2", "0", "3", "0", "-", "0", "1", "-", "0", "1">>
DATE_2031_PADDED == <<" ", "2", "0", "3", "1", "-", "0", "6", "-", "1", "5", "\t">>
DATE_SOON == <<"s", "o", "o", "n">>
DATE_BLANK == <<" ", "\t">>

\* what the amount field can hold: "", "abc", "-5", "0", "100", "12.5", "Infinity"
AmountInputs ==
    { <<>>, <<"a", "b", "c">>, <<"-", "5">>, <<"0">>,
      <<"1", "0", "0">>, <<"1", "2", ".", "5">>, <<"I", "n", "f", "i", "n", "i", "t", "y">> }

\* what the date field can hold
DateInputs == { <<>>, DATE_BLANK, DATE_2030, DATE_2031_PADDED, DATE_SOON }

JNumber(text) == [j |-> "number", tok |-> text]
JString(text) == [j |-> "string", tok |-> EscapeString(text)]
JObject(amount, date) == [j |-> "object", m |-> (TARGET_AMOUNT :> amount) @@ (TARGET_DATE :> date)]

\* what the storage key can hold when the page is opened: nothing, the empty
\* string, unparsable text, JSON null, a JSON number, and records that are
\* valid, have a bad amount, a blank date, a missing amount, or a date that
\* is no calendar date
StorageContents ==
    { NoItem,
      [j |-> "empty"],
      [j |-> "invalid"],
      [j |-> "null"],
      JNumber(<<"5">>),
      JObject(JNumber(<<"1", "0", "0">>), JString(DATE_2030)),
      JObject(JNumber(<<"-", "5">>), JString(DATE_2030)),
      JObject(JNumber(<<"1", "0", "0">>), JString(DATE_BLANK)),
      JObject(JString(<<"a", "b", "c">>), JString(DATE_2030)),
      [j |-> "object", m |-> (TARGET_DATE :> JString(DATE_2030))],
      JObject(JString(<<"2", "5", "0">>), JString(DATE_SOON)) }

(***************************************************************************)
(* State                                                                   *)
(***************************************************************************)
VARIABLES
    storage,        \* localStorage[STORAGE_KEY]: NoItem or the stored text
    now,            \* the clock: days since 2026-01-01T00:00:00 local time
    mounted,        \* per card: the component is mounted
    crashed,        \* per card: an exception escaped while mounting
    goal,           \* per card: useState goal
    editing,        \* per card: useState editing
    amountInput,    \* per card: useState amountInput
    dateInput,      \* per card: useState dateInput
    errorText,      \* per card: useState errorText
    subs,           \* per card: useState subs
    subsLoading,    \* per card: useState subsLoading
    computed,       \* per card: the memoized projection
    fetch,          \* per card: the subscriptions request of this mount
    stale,          \* per card: pending requests of earlier mounts
    record,         \* the record handed to the classifier
    tags,           \* the two verdicts of the classifier on record
    call,           \* a call of one of the card's functions with its arguments
    returned,       \* what the call returned
    modal,          \* the Modal element: mounted, and its props open and onClose
    effect,         \* the effect of the Modal that has run and not been cleaned up
    bodyOverflow,   \* document.body.style.overflow
    keydown,        \* the keydown listeners registered on document
    opened,         \* what the page looked like when the Modal was first opened
    widgetOpen,     \* CopilotWidget: useState open
    input,          \* CopilotWidget: useState input
    loading,        \* CopilotWidget: useState loading, as the last render saw it
    messages,       \* CopilotWidget: useState messages, as the last render saw it
    inFlight,       \* the chat requests sent and not yet answered
    queued,         \* state updates of a finished send that React has not rendered yet
    sends,          \* how many chat requests the widget has sent
    panelMounted,   \* InsightCards is rendered
    month,          \* InsightCards: the month prop
    cards,          \* InsightCards: useState cards
    cardsLoading,   \* InsightCards: useState loading
    cardsErrorText, \* InsightCards: useState errorText
    requests,       \* the insights requests not yet settled, each with the
                    \* mounted flag of the effect that sent it
    issued          \* how many insights requests the component has sent

cardVars == <<mounted, crashed, goal, editing, amountInput, dateInput, errorText,
              subs, subsLoading, computed, fetch, stale>>
classifierVars == <<record, tags>>
callVars == <<call, returned>>
modalVars == <<modal, effect, bodyOverflow, keydown, opened>>
chatVars == <<widgetOpen, input, loading, messages, inFlight, queued, sends>>
insightVars == <<panelMounted, month, cards, cardsLoading, cardsErrorText, requests, issued>>
panelVars == <<modalVars, chatVars, insightVars>>
vars == <<storage, now, cardVars, classifierVars, callVars, panelVars>>

\* what the card's handlers leave alone, what the classifier run leaves
\* alone, and what a call of a function leaves alone
notCard == <<classifierVars, callVars, panelVars>>
notClassifier == <<storage, now, cardVars, callVars, panelVars>>
notCall == <<storage, now, cardVars, classifierVars, panelVars>>
notModal == <<storage, now, cardVars, classifierVars, callVars, chatVars, insightVars>>
notChat == <<storage, now, cardVars, classifierVars, callVars, modalVars, insightVars>>
notInsights == <<storage, now, cardVars, classifierVars, callVars, modalVars, chatVars>>

NO_ERROR == ""
AMOUNT_ERROR == "Enter a valid target amount."
DATE_ERROR == "Select a target date."

ArrV(a) == [t |-> "array", a |-> a]

Row(merchant, cadence, avg, annual, conf) ==
    ObjV(("merchant" :> merchant) @@ ("cadence" :> cadence) @@ ("avg_amount" :> avg)
         @@ ("annualized_cost" :> annual) @@ ("confidence" :> conf))

NETFLIX == <<"N", "e", "t", "f", "l", "i", "x">>

NetflixRow ==
    Row(StrV(NETFLIX), StrV(MONTHLY_TEXT), NumV(Whole(15)), NumV(Whole(180)), NumV(Num(9, 10)))

Response(rows) == ObjV("subscriptions" :> ArrV(rows))

\* responses of GET /api/subscriptions seen by the card in the goal-store runs
CardResponses == { Null, Response(<<>>), Response(<<NetflixRow>>) }

\* rows = Array.isArray(res?.subscriptions) ? res.subscriptions : []
ResponseRows(res) ==
    LET s == GetOpt(res, "subscriptions")
    IN  IF s.t = "array" THEN s.a ELSE <<>>

(***************************************************************************)
(* The card: mount, unmount and the subscriptions request                  *)
(***************************************************************************)
\* the state of the first render for the loaded goal g: the useState
\* initialisers, then the effect starts the request (setSubsLoading(true)
\* runs before the first await)
FirstRender(c, g) ==
    /\ mounted' = [mounted EXCEPT ![c] = TRUE]
    /\ goal' = [goal EXCEPT ![c] = g]
    /\ editing' = [editing EXCEPT ![c] = ~g.set]
    /\ amountInput' = [amountInput EXCEPT ![c] =
           IF g.set THEN JSString(NumV(g.targetAmount)) ELSE <<>>]
    /\ dateInput' = [dateInput EXCEPT ![c] =
           IF g.set THEN JSString(StrV(g.targetDate)) ELSE <<>>]
    /\ subsLoading' = [subsLoading EXCEPT ![c] = TRUE]
    /\ computed' = [computed EXCEPT ![c] = Computed(g, <<>>, now)]
    /\ fetch' = [fetch EXCEPT ![c] = "pending"]
    /\ UNCHANGED crashed

\* an exception of the goal initialiser fails the render
FailedRender(c) ==
    /\ crashed' = [crashed EXCEPT ![c] = TRUE]
    /\ UNCHANGED <<mounted, goal, editing, amountInput, dateInput, subsLoading,
                   computed, fetch>>

MountWith(c, r) == IF r.threw THEN FailedRender(c) ELSE FirstRender(c, r.value)

\* the card is mounted: useState(() => loadGoal()) and the effect
Mount(c) ==
    /\ ~mounted[c]
    /\ MountWith(c, loadGoal(storage))
    /\ UNCHANGED <<notCard, storage, now, errorText, subs, stale>>

MaxStale == 1

\* unmount: the effect's cleanup sets the request's mounted flag to false;
\* the component's state is dropped
Unmount(c) ==
    /\ mounted[c]
    /\ fetch[c] = "pending" => stale[c] < MaxStale
    /\ mounted' = [mounted EXCEPT ![c] = FALSE]
    /\ goal' = [goal EXCEPT ![c] = NoGoal]
    /\ editing' = [editing EXCEPT ![c] = FALSE]
    /\ amountInput' = [amountInput EXCEPT ![c] = <<>>]
    /\ dateInput' = [dateInput EXCEPT ![c] = <<>>]
    /\ errorText' = [errorText EXCEPT ![c] = NO_ERROR]
    /\ subs' = [subs EXCEPT ![c] = <<>>]
    /\ subsLoading' = [subsLoading EXCEPT ![c] = FALSE]
    /\ computed' = [computed EXCEPT ![c] = NoComputed]
    /\ stale' = [stale EXCEPT ![c] = IF fetch[c] = "pending" THEN @ + 1 ELSE @]
    /\ fetch' = [fetch EXCEPT ![c] = "none"]
    /\ UNCHANGED <<notCard, storage, now, crashed>>

\* the request of the current mount resolves with res
FetchResolve(c, res) ==
    /\ fetch[c] = "pending"
    /\ subs' = [subs EXCEPT ![c] = ResponseRows(res)]
    /\ subsLoading' = [subsLoading EXCEPT ![c] = FALSE]
    /\ computed' = [computed EXCEPT ![c] = Computed(goal[c], ResponseRows(res), now)]
    /\ fetch' = [fetch EXCEPT ![c] = "settled"]
    /\ UNCHANGED <<notCard, storage, now, mounted, crashed, goal, editing, amountInput,
                   dateInput, errorText, stale>>

\* the request of the current mount fails
FetchReject(c) ==
    /\ fetch[c] = "pending"
    /\ subs' = [subs EXCEPT ![c] = <<>>]
    /\ subsLoading' = [subsLoading EXCEPT ![c] = FALSE]
    /\ computed' = [computed EXCEPT ![c] = Computed(goal[c], <<>>, now)]
    /\ fetch' = [fetch EXCEPT ![c] = "settled"]
    /\ UNCHANGED <<notCard, storage, now, mounted, crashed, goal, editing, amountInput,
                   dateInput, errorText, stale>>

\* a variant whose finally block does not look at the mounted flag
StaleSettleStopsLoading(c) ==
    /\ stale[c] > 0
    /\ stale' = [stale EXCEPT ![c] = @ - 1]
    /\ subsLoading' = [subsLoading EXCEPT ![c] = FALSE]
    /\ UNCHANGED <<notCard, storage, now, mounted, crashed, goal, editing, amountInput,
                   dateInput, errorText, subs, computed, fetch>>

\* a request of an earlier mount settles: its mounted flag is false, so
\* nothing is written
StaleSettle(c) ==
    /\ stale[c] > 0
    /\ stale' = [stale EXCEPT ![c] = @ - 1]
    /\ UNCHANGED <<notCard, storage, now, mounted, crashed, goal, editing, amountInput,
                   dateInput, errorText, subs, subsLoading, computed, fetch>>

(***************************************************************************)
(* The card: the goal form                                                 *)
(***************************************************************************)
SetAmountInput(c, text) ==
    /\ mounted[c] /\ editing[c]
    /\ amountInput' = [amountInput EXCEPT ![c] = text]
    /\ UNCHANGED <<notCard, storage, now, mounted, crashed, goal, editing, dateInput,
                   errorText, subs, subsLoading, computed, fetch, stale>>

SetDateInput(c, text) ==
    /\ mounted[c] /\ editing[c]
    /\ dateInput' = [dateInput EXCEPT ![c] = text]
    /\ UNCHANGED <<notCard, storage, now, mounted, crashed, goal, editing, amountInput,
                   errorText, subs, subsLoading, computed, fetch, stale>>

\* a variant that checks only the amount
SaveInputErrorAmountOnly(amt, date) ==
    IF ~IsFinite(amt) \/ LessEq(amt, Whole(0)) THEN AMOUNT_ERROR ELSE NO_ERROR

\* a variant that lets a zero amount through
SaveInputErrorAllowZero(amt, date) ==
    IF ~IsFinite(amt) \/ Less(amt, Whole(0)) THEN AMOUNT_ERROR
    ELSE IF date = <<>> THEN DATE_ERROR
    ELSE NO_ERROR

\* the two checks of onSave: the message it sets, NO_ERROR when both pass
SaveInputError(amt, date) ==
    IF ~IsFinite(amt) \/ LessEq(amt, Whole(0)) THEN AMOUNT_ERROR
    ELSE IF date = <<>> THEN DATE_ERROR
    ELSE NO_ERROR

\* a variant that sets the goal in memory without saving it
PersistInMemoryOnly(c, next) ==
    /\ errorText' = [errorText EXCEPT ![c] = NO_ERROR]
    /\ storage' = storage
    /\ goal' = [goal EXCEPT ![c] = next]
    /\ editing' = [editing EXCEPT ![c] = FALSE]
    /\ computed' = [computed EXCEPT ![c] = Computed(next, subs[c], now)]

\* the end of onSave: saveGoal(next); setGoal(next); setEditing(false)
Persist(c, next) ==
    /\ errorText' = [errorText EXCEPT ![c] = NO_ERROR]
    /\ storage' = saveGoal(storage, next)
    /\ goal' = [goal EXCEPT ![c] = next]
    /\ editing' = [editing EXCEPT ![c] = FALSE]
    /\ computed' = [computed EXCEPT ![c] = Computed(next, subs[c], now)]

\* an early return of onSave with its message
Reject(c, error) ==
    /\ errorText' = [errorText EXCEPT ![c] = error]
    /\ UNCHANGED <<storage, goal, editing, computed>>

OnSaveWith(c, amt, date, error) ==
    IF error # NO_ERROR THEN Reject(c, error) ELSE Persist(c, Goal(amt, date))

OnSaveOf(c, amt, date) == OnSaveWith(c, amt, date, SaveInputError(amt, date))

\* onSave(): the Save goal button of the form
OnSave(c) ==
    /\ mounted[c] /\ editing[c]
    /\ OnSaveOf(c, ToNumber(StrV(amountInput[c])),
                Trim(JSString(OrElse(StrV(dateInput[c]), EmptyString))))
    /\ UNCHANGED <<notCard, now, mounted, crashed, amountInput, dateInput, subs, subsLoading,
                   fetch, stale>>

\* a variant that leaves the form closed
OnResetKeepsMode(c) ==
    /\ mounted[c] /\ goal[c].set
    /\ storage' = clearGoal(storage)
    /\ goal' = [goal EXCEPT ![c] = NoGoal]
    /\ amountInput' = [amountInput EXCEPT ![c] = <<>>]
    /\ dateInput' = [dateInput EXCEPT ![c] = <<>>]
    /\ errorText' = [errorText EXCEPT ![c] = NO_ERROR]
    /\ computed' = [computed EXCEPT ![c] = NoComputed]
    /\ UNCHANGED <<notCard, now, mounted, crashed, editing, subs, subsLoading, fetch, stale>>

\* onReset(): the Reset button, shown while a goal exists
OnReset(c) ==
    /\ mounted[c] /\ goal[c].set
    /\ storage' = clearGoal(storage)
    /\ goal' = [goal EXCEPT ![c] = NoGoal]
    /\ amountInput' = [amountInput EXCEPT ![c] = <<>>]
    /\ dateInput' = [dateInput EXCEPT ![c] = <<>>]
    /\ editing' = [editing EXCEPT ![c] = TRUE]
    /\ errorText' = [errorText EXCEPT ![c] = NO_ERROR]
    /\ computed' = [computed EXCEPT ![c] = NoComputed]
    /\ UNCHANGED <<notCard, now, mounted, crashed, subs, subsLoading, fetch, stale>>

\* the Edit button, shown while not editing
StartEdit(c) ==
    /\ mounted[c] /\ ~editing[c]
    /\ editing' = [editing EXCEPT ![c] = TRUE]
    /\ UNCHANGED <<notCard, storage, now, mounted, crashed, goal, amountInput, dateInput,
                   errorText, subs, subsLoading, computed, fetch, stale>>

\* the Cancel button of the form, shown while a goal exists
CancelEdit(c) ==
    /\ mounted[c] /\ editing[c] /\ goal[c].set
    /\ editing' = [editing EXCEPT ![c] = FALSE]
    /\ errorText' = [errorText EXCEPT ![c] = NO_ERROR]
    /\ amountInput' = [amountInput EXCEPT ![c] = JSString(NumV(goal[c].targetAmount))]
    /\ dateInput' = [dateInput EXCEPT ![c] = JSString(StrV(goal[c].targetDate))]
    /\ UNCHANGED <<notCard, storage, now, mounted, crashed, goal, subs, subsLoading,
                   computed, fetch, stale>>

(***************************************************************************)
(* One card over a storage key that may already hold anything              *)
(***************************************************************************)
InitCards ==
    /\ now = Whole(0)
    /\ mounted = [c \in Cards |-> FALSE]
    /\ crashed = [c \in Cards |-> FALSE]
    /\ goal = [c \in Cards |-> NoGoal]
    /\ editing = [c \in Cards |-> FALSE]
    /\ amountInput = [c \in Cards |-> <<>>]
    /\ dateInput = [c \in Cards |-> <<>>]
    /\ errorText = [c \in Cards |-> NO_ERROR]
    /\ subs = [c \in Cards |-> <<>>]
    /\ subsLoading = [c \in Cards |-> FALSE]
    /\ computed = [c \in Cards |-> NoComputed]
    /\ fetch = [c \in Cards |-> "none"]
    /\ stale = [c \in Cards |-> 0]

NoTags == [set |-> FALSE]

\* no record is being classified
InitClassifier ==
    /\ record = Null
    /\ tags = NoTags

NoCall == [fn |-> "none"]
NoReturn == [set |-> FALSE]

\* no function is being called on its own
InitCall ==
    /\ call = NoCall
    /\ returned = NoReturn

(***************************************************************************)
(* The modal dialog (Modal.jsx)                                            *)
(***************************************************************************)
\* the values of document.body.style.overflow a page is loaded with
OverflowStyles == { "", "auto", "scroll", "hidden" }

\* the onClose prop: absent, or the closeModal function of one render of the
\* parent (every render of the parent makes a new function)
NO_CALLBACK == "undefined"
CloseCallbacks == { "closeModal#1", "closeModal#2" }
OnCloseProps == CloseCallbacks \cup { NO_CALLBACK }

MaxSwaps == 2
MaxCloseCalls == 2

NoModal == [mounted |-> FALSE, open |-> FALSE, onClose |-> NO_CALLBACK]
NoEffect == [active |-> FALSE]

\* function onKeyDown of the effect that captured onClose
OnKeyDown(onClose) == [onClose |-> onClose]

\* the page: the style of body and the listeners of document
Page(overflow, listeners) == [overflow |-> overflow, keydown |-> listeners]

\* a variant of the cleanup that clears the style instead of restoring it
CleanupClearsOverflow(e, page) ==
    IF e.active THEN Page("", page.keydown \ { OnKeyDown(e.onClose) }) ELSE page

\* the function the effect returned: removeEventListener, then the style
\* goes back to prevOverflow; an effect that returned early has no cleanup
Cleanup(e, page) ==
    IF e.active
    THEN Page(e.prevOverflow, page.keydown \ { OnKeyDown(e.onClose) })
    ELSE page

\* the body of the effect with the props open and onClose on the page
EffectOf(open, onClose, page) ==
    IF ~open THEN NoEffect
    ELSE [active |-> TRUE, onClose |-> onClose, prevOverflow |-> page.overflow]

PageAfterEffect(open, onClose, page) ==
    IF ~open THEN page
    ELSE Page("hidden", page.keydown \cup { OnKeyDown(onClose) })

\* React commits the props open and onClose: when a dependency of the effect
\* changed, the cleanup of the last effect runs and then the effect
Commit(open, onClose) ==
    /\ modal' = [mounted |-> TRUE, open |-> open, onClose |-> onClose]
    /\ effect' = EffectOf(open, onClose, Cleanup(effect, Page(bodyOverflow, keydown)))
    /\ bodyOverflow' =
           PageAfterEffect(open, onClose, Cleanup(effect, Page(bodyOverflow, keydown))).overflow
    /\ keydown' =
           PageAfterEffect(open, onClose, Cleanup(effect, Page(bodyOverflow, keydown))).keydown

NeverOpened == [set |-> FALSE, overflow |-> "", swaps |-> 0, closeCalls |-> 0]

\* the record of the first opening: the style of body just before it
Opening(open) ==
    IF open /\ ~opened.set
    THEN [opened EXCEPT !.set = TRUE, !.overflow = bodyOverflow]
    ELSE opened

\* the parent renders the Modal for the first time
MountModal(open, onClose) ==
    /\ ~modal.mounted
    /\ Commit(open, onClose)
    /\ opened' = Opening(open)
    /\ UNCHANGED notModal

\* the parent sets open to true (openDetails), with the closeModal of its render
OpenModal(onClose) ==
    /\ modal.mounted /\ ~modal.open
    /\ Commit(TRUE, onClose)
    /\ opened' = Opening(TRUE)
    /\ UNCHANGED notModal

\* the parent renders again while the dialog is open: onClose is a new function
SwapOnClose(onClose) ==
    /\ modal.mounted /\ modal.open
    /\ onClose # modal.onClose
    /\ opened.swaps < MaxSwaps
    /\ Commit(TRUE, onClose)
    /\ opened' = [opened EXCEPT !.swaps = @ + 1]
    /\ UNCHANGED notModal

\* the parent sets open to false
CloseModal(onClose) ==
    /\ modal.mounted /\ modal.open
    /\ Commit(FALSE, onClose)
    /\ UNCHANGED opened
    /\ UNCHANGED notModal

\* the parent stops rendering the Modal: the cleanup of the last effect runs
UnmountModal ==
    /\ modal.mounted
    /\ modal' = NoModal
    /\ effect' = NoEffect
    /\ bodyOverflow' = Cleanup(effect, Page(bodyOverflow, keydown)).overflow
    /\ keydown' = Cleanup(effect, Page(bodyOverflow, keydown)).keydown
    /\ UNCHANGED opened
    /\ UNCHANGED notModal

\* a keydown event with key Escape reaches a registered listener whose
\* onClose is a function: closeModal runs and the parent sets open to false
PressEscape ==
    /\ \E l \in keydown : l.onClose # NO_CALLBACK
    /\ opened.closeCalls < MaxCloseCalls
    /\ \E onClose \in CloseCallbacks :
           IF modal.mounted THEN Commit(FALSE, onClose)
           ELSE UNCHANGED <<modal, effect, bodyOverflow, keydown>>
    /\ opened' = [opened EXCEPT !.closeCalls = @ + 1]
    /\ UNCHANGED notModal

\* the page before the Modal is rendered
InitModal ==
    /\ modal = NoModal
    /\ effect = NoEffect
    /\ bodyOverflow = ""
    /\ keydown = {}
    /\ opened = NeverOpened

(***************************************************************************)
(* The chat widget (CopilotWidget.jsx)                                     *)
(***************************************************************************)
MaxSends == 2

GREETING ==
    <<"Ask me about spending, subscriptions, anomalies, or how to save toward a goal.">>
NO_ANSWER == <<"I could not generate an answer.">>
CHAT_ERROR == <<"Error contacting Copilot. Check backend and API key.">>

\* one entry of the transcript; req is the request it belongs to (0: none)
Message(role, text, req) == [role |-> role, text |-> text, req |-> req]

\* what the user can have in the input box
InputTexts == { <<>>, <<" ">>, <<"h", "i">>, <<" ", "o", "k", " ">> }

NotArray == [array |-> FALSE, items |-> <<>>]
Items(a) == [array |-> TRUE, items |-> a]

\* the JSON body of a chat response
ChatData(answer, bullets, followups) ==
    [answer |-> answer, bullets |-> bullets, followups |-> followups]

\* the bodies the backend answers with; answer "" stands for a missing answer
ChatResponses ==
    { ChatData(a, b, f) :
        a \in { <<>>, <<" ">>, <<"y", "e", "s">> },
        b \in { NotArray, Items(<<>>), Items(<< <<"b">> >>) },
        f \in { NotArray, Items(<<>>), Items(<< <<"f">>, <<"g">> >>) } }

\* items.join("\n")
RECURSIVE JoinLines(_)
JoinLines(items) ==
    IF items = <<>> THEN <<>>
    ELSE IF Len(items) = 1 THEN items[1]
    ELSE JoinLines(SubSeq(items, 1, Len(items) - 1)) \o <<"\n">> \o items[Len(items)]

\* (data.answer || "").trim() || (Array.isArray(data.bullets) ?
\* data.bullets.join("\n") : "") || "I could not generate an answer."
AssistantText(data) ==
    IF Trim(data.answer) # <<>> THEN Trim(data.answer)
    ELSE IF data.bullets.array /\ JoinLines(data.bullets.items) # <<>>
         THEN JoinLines(data.bullets.items)
    ELSE NO_ANSWER

\* "Follow ups:\n" + data.followups.map((x) => `- ${x}`).join("\n")
FollowText(data) ==
    <<"Follow ups:", "\n">>
        \o JoinLines([i \in 1..Len(data.followups.items) |-> <<"-", " ">> \o data.followups.items[i]])

\* the messages a resolved request appends
Replies(data, req) ==
    <<Message("assistant", AssistantText(data), req)>>
        \o (IF data.followups.array /\ data.followups.items # <<>>
            THEN <<Message("assistant", FollowText(data), req)>>
            ELSE <<>>)

NothingQueued == [messages |-> <<>>, done |-> FALSE]

\* the widget as first rendered
InitChat ==
    /\ widgetOpen = FALSE
    /\ input = <<>>
    /\ loading = FALSE
    /\ messages = <<Message("assistant", GREETING, 0)>>
    /\ inFlight = {}
    /\ queued = NothingQueued
    /\ sends = 0

\* the AI button, and Close in the panel
ToggleWidget ==
    /\ widgetOpen' = ~widgetOpen
    /\ UNCHANGED <<notChat, input, loading, messages, inFlight, queued, sends>>

\* onChange of the input box, or one of the suggestion buttons
SetInput(text) ==
    /\ widgetOpen
    /\ input' = text
    /\ UNCHANGED <<notChat, widgetOpen, loading, messages, inFlight, queued, sends>>

\* a variant of send that does not look at loading
SendUnguarded ==
    /\ widgetOpen
    /\ sends < MaxSends
    /\ IF Trim(input) = <<>>
       THEN UNCHANGED <<input, loading, messages, inFlight, sends>>
       ELSE /\ input' = <<>>
            /\ messages' = Append(messages, Message("user", Trim(input), sends + 1))
            /\ loading' = TRUE
            /\ inFlight' = inFlight \cup { sends + 1 }
            /\ sends' = sends + 1
    /\ UNCHANGED <<notChat, widgetOpen, queued>>

\* send, from Enter in the input box or from the Send button, up to its
\* await: the handler is the one of the last render, so it reads the input
\* and the loading of that render
Send ==
    /\ widgetOpen
    /\ sends < MaxSends
    /\ IF Trim(input) = <<>> \/ loading
       THEN UNCHANGED <<input, loading, messages, inFlight, sends>>
       ELSE /\ input' = <<>>
            /\ messages' = Append(messages, Message("user", Trim(input), sends + 1))
            /\ loading' = TRUE
            /\ inFlight' = inFlight \cup { sends + 1 }
            /\ sends' = sends + 1
    /\ UNCHANGED <<notChat, widgetOpen, queued>>

\* what send does after its await: the state updates are queued until React
\* renders them
Finish(req, replies) ==
    /\ req \in inFlight
    /\ inFlight' = inFlight \ { req }
    /\ queued' = [messages |-> queued.messages \o replies, done |-> TRUE]
    /\ UNCHANGED <<notChat, widgetOpen, input, loading, messages, sends>>

\* postChat resolves with a body
ChatResolve(req, data) == Finish(req, Replies(data, req))

\* postChat rejects (network error, status not ok), or the body is null and
\* reading data.answer throws
ChatReject(req) == Finish(req, <<Message("assistant", CHAT_ERROR, req)>>)

\* React renders the updates of a finished send: the replies, and loading false
RenderChat ==
    /\ queued.done
    /\ messages' = messages \o queued.messages
    /\ loading' = FALSE
    /\ queued' = NothingQueued
    /\ UNCHANGED <<notChat, widgetOpen, input, inFlight, sends>>

(***************************************************************************)
(* The insight cards (InsightCards.jsx)                                    *)
(***************************************************************************)
MaxRequests == 3
MaxCards == 6

Months == { "2026-01", "2026-02" }
NO_MONTH == ""

LOAD_FAILED == "Failed to load insights"

\* the messages of the errors a request is rejected with ("": no message)
ErrorMessages == { "", "Request failed" }

\* the cards the backend computes for request req of month m
CardsFor(m, req, n) == [k \in 1..n |-> [month |-> m, req |-> req, k |-> k]]

\* the bodies a request resolves with: the cards at the top, under data,
\* cards that are no array, and no body
PayloadShapes == { "cards", "data.cards", "not an array", "null" }

InsightsResponse(shape, list) ==
    CASE shape = "cards" -> ObjV("cards" :> ArrV(list))
      [] shape = "data.cards" -> ObjV("data" :> ObjV("cards" :> ArrV(list)))
      [] shape = "not an array" -> ObjV("cards" :> StrV(<<"n", "o", "n", "e">>))
      [] OTHER -> Null

\* payload = res?.data ?? res
Payload(res) == IF IsNullish(GetOpt(res, "data")) THEN res ELSE GetOpt(res, "data")

\* nextCards = Array.isArray(payload?.cards) ? payload.cards : []
NextCards(res) ==
    IF GetOpt(Payload(res), "cards").t = "array" THEN GetOpt(Payload(res), "cards").a ELSE <<>>

\* nextCards.slice(0, 5)
FirstFive(list) == SubSeq(list, 1, IF Len(list) < 5 THEN Len(list) ELSE 5)

Request(id, m) == [id |-> id, month |-> m, mounted |-> TRUE]

\* the cleanup of the effect: mounted = false in the closure of its request
Abandoned(reqs) == { [r EXCEPT !.mounted = FALSE] : r \in reqs }

InitInsights ==
    /\ panelMounted = FALSE
    /\ month = NO_MONTH
    /\ cards = <<>>
    /\ cardsLoading = FALSE
    /\ cardsErrorText = ""
    /\ requests = {}
    /\ issued = 0

\* the effect: load() up to its await
Load(m) ==
    /\ issued < MaxRequests
    /\ month' = m
    /\ cardsLoading' = TRUE
    /\ cardsErrorText' = ""
    /\ requests' = Abandoned(requests) \cup { Request(issued + 1, m) }
    /\ issued' = issued + 1

\* the parent renders InsightCards with month m
MountInsights(m) ==
    /\ ~panelMounted
    /\ panelMounted' = TRUE
    /\ cards' = <<>>
    /\ Load(m)
    /\ UNCHANGED notInsights

\* the month prop changes: the cleanup of the last effect, then the effect
ChangeMonth(m) ==
    /\ panelMounted
    /\ m # month
    /\ Load(m)
    /\ UNCHANGED <<notInsights, panelMounted, cards>>

\* the parent stops rendering InsightCards: the cleanup runs, the state is gone
UnmountInsights ==
    /\ panelMounted
    /\ panelMounted' = FALSE
    /\ month' = NO_MONTH
    /\ cards' = <<>>
    /\ cardsLoading' = FALSE
    /\ cardsErrorText' = ""
    /\ requests' = Abandoned(requests)
    /\ UNCHANGED <<notInsights, issued>>

\* a variant of the try block without the mounted check
InsightsResolveUnguarded(r, res) ==
    /\ r \in requests
    /\ requests' = requests \ { r }
    /\ cards' = FirstFive(NextCards(res))
    /\ cardsLoading' = (IF r.mounted THEN FALSE ELSE cardsLoading)
    /\ UNCHANGED <<notInsights, panelMounted, month, cardsErrorText, issued>>

\* request r resolves with res: try and finally
InsightsResolve(r, res) ==
    /\ r \in requests
    /\ requests' = requests \ { r }
    /\ cards' = (IF r.mounted THEN FirstFive(NextCards(res)) ELSE cards)
    /\ cardsLoading' = (IF r.mounted THEN FALSE ELSE cardsLoading)
    /\ UNCHANGED <<notInsights, panelMounted, month, cardsErrorText, issued>>

\* request r is rejected with an error of message text: catch and finally
InsightsReject(r, text) ==
    /\ r \in requests
    /\ requests' = requests \ { r }
    /\ cards' = (IF r.mounted THEN <<>> ELSE cards)
    /\ cardsErrorText' =
           (IF r.mounted THEN (IF text = "" THEN LOAD_FAILED ELSE text) ELSE cardsErrorText)
    /\ cardsLoading' = (IF r.mounted THEN FALSE ELSE cardsLoading)
    /\ UNCHANGED <<notInsights, panelMounted, month, issued>>

\* the other panels of the page are not rendered
InitPanels == InitModal /\ InitChat /\ InitInsights

Init ==
    /\ storage \in StorageContents
    /\ InitCards
    /\ InitClassifier
    /\ InitCall
    /\ InitPanels

Next ==
    \/ Mount(1)
    \/ Unmount(1)
    \/ \E res \in CardResponses : FetchResolve(1, res)
    \/ FetchReject(1)
    \/ StaleSettle(1)
    \/ \E text \in AmountInputs : SetAmountInput(1, text)
    \/ \E text \in DateInputs : SetDateInput(1, text)
    \/ OnSave(1)
    \/ OnReset(1)
    \/ StartEdit(1)
    \/ CancelEdit(1)

Spec == Init /\ [][Next]_vars

\* the request of the current mount settles, one way or the other
Settle(c) == (\E res \in CardResponses : FetchResolve(c, res)) \/ FetchReject(c)

\* the step of Settle(c) read off the request alone: the pending request of
\* card c becomes settled; within Next these are exactly the steps of Settle(c)
RequestSettles(c) == fetch[c] = "pending" /\ fetch' = [fetch EXCEPT ![c] = "settled"]

\* every request the browser has sent settles: fetch resolves or rejects
\* its promise and the event loop runs the continuation
SpecSettles == Init /\ [][Next]_vars /\ WF_fetch(RequestSettles(1)) /\ WF_vars(StaleSettle(1))

\* RequestSettles(c) and Settle(c) are the same steps of the card
SettleIsRequestSettles == [][\A c \in Cards : RequestSettles(c) <=> Settle(c)]_vars

(***************************************************************************)
(* Two cards (two tabs) over one storage key                               *)
(***************************************************************************)
WriterAmountInputs == { <<"-", "5">>, <<"1", "0", "0">>, <<"1", "2", ".", "5">> }
WriterDateInputs == { <<>>, DATE_2030, DATE_2031_PADDED }

InitWriters ==
    /\ storage = NoItem
    /\ InitCards
    /\ InitClassifier
    /\ InitCall
    /\ InitPanels

NextWriters ==
    \E c \in Cards :
        \/ Mount(c)
        \/ \E text \in WriterAmountInputs : SetAmountInput(c, text)
        \/ \E text \in WriterDateInputs : SetDateInput(c, text)
        \/ OnSave(c)
        \/ OnReset(c)
        \/ StartEdit(c)
        \/ CancelEdit(c)

SpecWriters == InitWriters /\ [][NextWriters]_vars

(***************************************************************************)
(* Properties of the goal store                                            *)
(***************************************************************************)
\* the amount and the date a save of card c is called with
SaveAmount(c) == StringToNumber(amountInput[c])
SaveDate(c) == dateInput[c]

\* the input of a save is invalid: the amount is not a finite number > 0, or
\* the date is empty after trimming
InvalidSaveInput(c) ==
    \/ SaveAmount(c).t # "num"
    \/ SaveAmount(c).n <= 0
    \/ Trim(SaveDate(c)) = <<>>

Loaded(raw) == loadGoal(raw).value

\* C1: a save with an invalid input reports a validation error and persists
\* nothing: the persisted and the in-memory goal are unchanged, and a load
\* after it returns what a load before it returned
C1_InvalidSaveChangesNothing ==
    [][\A c \in Cards :
          (OnSave(c) /\ InvalidSaveInput(c)) =>
              /\ errorText'[c] \in {AMOUNT_ERROR, DATE_ERROR}
              /\ storage' = storage
              /\ goal' = goal
              /\ Loaded(storage') = Loaded(storage)]_vars

\* a save has just been rejected while a goal was set, and the goal is still
\* what the store holds
C1_Witness ==
    /\ mounted[1] /\ errorText[1] = AMOUNT_ERROR
    /\ goal[1].set /\ Loaded(storage) = goal[1]

\* C2: a successful save replaces the persisted goal wholesale: a load right
\* after it returns exactly the amount and the trimmed date of that save
C2_SaveThenLoad ==
    [][\A c \in Cards :
          (OnSave(c) /\ ~InvalidSaveInput(c)) =>
              /\ loadGoal(storage') =
                    [threw |-> FALSE, value |-> Goal(SaveAmount(c), Trim(SaveDate(c)))]
              /\ storage' = JSONStringify(GoalObject(Goal(SaveAmount(c), Trim(SaveDate(c)))))]_vars

\* a save of 12.5 by " 2031-06-15<tab>" has been persisted with the date trimmed
C2_Witness ==
    /\ mounted[1] /\ ~editing[1]
    /\ amountInput[1] = <<"1", "2", ".", "5">> /\ dateInput[1] = DATE_2031_PADDED
    /\ Loaded(storage) = Goal(Num(25, 2), Trim(DATE_2031_PADDED))

\* the amount of a persisted record as a number, NaN when the text holds no record
PersistedAmount(raw) ==
    IF raw.j = "object" /\ TARGET_AMOUNT \in DOMAIN raw.m
    THEN ToNumber(ParseScalar(raw.m[TARGET_AMOUNT]))
    ELSE NaN

\* the date of a persisted record as text, empty when there is none
PersistedDate(raw) ==
    IF raw.j = "object" /\ TARGET_DATE \in DOMAIN raw.m /\ raw.m[TARGET_DATE].j = "string"
    THEN UnescapeString(raw.m[TARGET_DATE].tok)
    ELSE <<>>

\* the persisted content holds no valid goal: the key is absent, the text is
\* empty, unparsable or JSON null, the amount is not a finite number > 0, or
\* the date is empty after trimming
InvalidPersisted(raw) ==
    \/ raw.j \in {"none", "empty", "invalid", "null"}
    \/ PersistedAmount(raw).t # "num"
    \/ PersistedAmount(raw).n <= 0
    \/ Trim(PersistedDate(raw)) = <<>>

\* C3: load never raises, and returns absent for every invalid persisted content
C3_LoadNeverRaises ==
    [][\A c \in Cards :
          Mount(c) =>
              /\ ~crashed'[c]
              /\ mounted'[c]
              /\ ~loadGoal(storage).threw
              /\ InvalidPersisted(storage) => ~goal'[c].set]_vars

\* the card has mounted over unparsable text and shows no goal
C3_Witness ==
    /\ storage = [j |-> "invalid"]
    /\ mounted[1] /\ ~crashed[1] /\ ~goal[1].set

\* C4: clear is idempotent: it empties the store from Set, is a no-op and no
\* error from Empty, and a second clear changes nothing
C4_ClearIdempotent ==
    [][\A c \in Cards :
          OnReset(c) =>
              /\ storage' = NoItem
              /\ ~Loaded(storage').set
              /\ ~crashed'[c]
              /\ storage = NoItem => storage' = storage
              /\ clearGoal(storage') = storage']_vars

\* the store has been cleared by one card while the other still holds a goal,
\* so the other's clear acts on an empty store
C4_Witness ==
    /\ storage = NoItem
    /\ mounted[1] /\ ~goal[1].set
    /\ mounted[2] /\ goal[2].set

\* C5: whenever a goal exists, in a card or as load returns it, its
\* targetAmount is a finite number > 0
C5_AmountPositive ==
    /\ \A c \in Cards :
          goal[c].set => goal[c].targetAmount.t = "num" /\ goal[c].targetAmount.n > 0
    /\ Loaded(storage).set =>
          Loaded(storage).targetAmount.t = "num" /\ Loaded(storage).targetAmount.n > 0

\* a goal of 12.5 has been saved and is what load returns
C5_Witness ==
    /\ goal[1].set /\ goal[1].targetAmount = Num(25, 2)
    /\ Loaded(storage) = goal[1]

ValidCalendarDate(text) == ParseDateTime(text \o T_MIDNIGHT).valid

\* C6 as stated: every goal that exists has a targetDate that parses to a
\* valid calendar date
C6_DateParses ==
    \A c \in Cards : goal[c].set => ValidCalendarDate(goal[c].targetDate)

\* C6 amended: every goal that exists has a targetDate that is a non-empty
\* string without leading or trailing whitespace
C6_DateNonEmptyTrimmed ==
    /\ \A c \in Cards :
          goal[c].set => goal[c].targetDate # <<>> /\ Trim(goal[c].targetDate) = goal[c].targetDate
    /\ Loaded(storage).set =>
          /\ Loaded(storage).targetDate # <<>>
          /\ Trim(Loaded(storage).targetDate) = Loaded(storage).targetDate

\* a goal whose date is the text "soon" has been saved
C6_Witness ==
    /\ goal[1].set /\ goal[1].targetDate = DATE_SOON
    /\ ~ValidCalendarDate(goal[1].targetDate)
    /\ Loaded(storage) = goal[1]

\* C7: last writer wins: a step changes the persisted value only as the save
\* or the clear of one card, and then to exactly that operation's result
C7_LastWriterWins ==
    [][/\ \A c \in Cards :
             (OnSave(c) /\ ~InvalidSaveInput(c)) =>
                 storage' = JSONStringify(GoalObject(Goal(SaveAmount(c), Trim(SaveDate(c)))))
       /\ \A c \in Cards : OnReset(c) => storage' = NoItem
       /\ (\A c \in Cards : ~(OnSave(c) /\ ~InvalidSaveInput(c)) /\ ~OnReset(c)) =>
             storage' = storage]_vars

\* both cards have saved different goals and the store holds the second's
C7_Witness ==
    /\ goal[1].set /\ goal[2].set
    /\ goal[1].targetAmount # goal[2].targetAmount
    /\ goal[1].targetDate # goal[2].targetDate
    /\ Loaded(storage) = goal[2]


\* C25: with one card writing, after every operation of the mounted card
\* (mount, save, rejected save, clear, edit, cancel) the goal in memory is
\* what load returns from the store: both absent or both the same goal
C25_MemoryMatchesStore ==
    \A c \in Cards : mounted[c] => goal[c] = Loaded(storage)

\* a goal of 12.5 was saved, the form reopened and a save of -5 rejected
C25_Witness ==
    /\ mounted[1] /\ editing[1]
    /\ amountInput[1] = <<"-", "5">>
    /\ errorText[1] = AMOUNT_ERROR
    /\ goal[1] = Goal(Num(25, 2), DATE_2030)
    /\ Loaded(storage) = Goal(Num(25, 2), DATE_2030)

\* C26: a mounted card without goal is in editing mode: the projection view
\* (not editing) is shown only with a goal and its projection, Cancel acts
\* only with a goal, and "not editing and no goal" is never reached
C26_NoGoalMeansEditing ==
    \A c \in Cards :
        /\ mounted[c] =>
              /\ ~goal[c].set => editing[c]
              /\ ~editing[c] => goal[c].set /\ computed[c].set
        /\ (ENABLED CancelEdit(c)) => goal[c].set

\* the goal has been cleared from the projection view: the form is open
\* and a save without date has been rejected
C26_Witness ==
    /\ mounted[1]
    /\ storage = NoItem
    /\ ~goal[1].set
    /\ editing[1]
    /\ errorText[1] = DATE_ERROR
    /\ fetch[1] = "settled"


\* the plan of card c is empty and covers nothing
EmptyPlan(c) ==
    computed[c].set =>
        /\ computed[c].topTwo = <<>>
        /\ computed[c].cancelMonthly = Whole(0)
        /\ computed[c].coveragePct = Whole(0)

\* a request of an earlier mount of card c settles in this step
LateResult(c) == stale'[c] < stale[c]

GENERIC == <<"G", "e", "n", "e", "r", "i", "c", " ", "S", "t", "r", "e", "a", "m", "i", "n", "g", " ", "C", "o">>
SPOTIFY_STUDENT == <<"S", "p", "o", "t", "i", "f", "y", " ", " ", "S", "t", "u", "d", "e", "n", "t">>
WEEKLY_TEXT == <<"w", "e", "e", "k", "l", "y">>

\* merchant fields: missing, blank, allow-listed, neither list, block-listed,
\* on both lists, block-listed only once its whitespace is collapsed
MerchantFields ==
    { Undefined, StrV(DATE_BLANK), StrV(NETFLIX), StrV(GENERIC), StrV(SPOTIFY_STUDENT),
      \* " HULU\t"
      StrV(<<" ", "H", "U", "L", "U", "\t">>),
      \* "Monthly Rent Payment"
      StrV(<<"M", "o", "n", "t", "h", "l", "y", " ", "R", "e", "n", "t", " ",
             "P", "a", "y", "m", "e", "n", "t">>),
      \* "ABC Student Loan Payment"
      StrV(<<"A", "B", "C", " ", "S", "t", "u", "d", "e", "n", "t", " ", "L", "o", "a", "n", " ",
             "P", "a", "y", "m", "e", "n", "t">>),
      \* "Cash \tApp"
      StrV(<<"C", "a", "s", "h", " ", "\t", "A", "p", "p">>) }

\* cadence fields: "monthly", "Annual", "weekly", "biweekly", missing, " monthly"
CadenceFields ==
    { StrV(MONTHLY_TEXT), StrV(<<"A", "n", "n", "u", "a", "l">>), StrV(WEEKLY_TEXT),
      StrV(<<"b", "i", "w", "e", "e", "k", "l", "y">>), Undefined, StrV(<<" ">> \o MONTHLY_TEXT) }

\* avg_amount fields: missing, -5, 1.99, 2, 120, 120.01, Infinity, "15"
AvgFields ==
    { Undefined, NumV(Whole(-5)), NumV(Num(199, 100)), NumV(Whole(2)), NumV(Whole(120)),
      NumV(Num(12001, 100)), NumV(PosInf), StrV(<<"1", "5">>) }

\* annualized_cost fields: missing, -120, 23.99, 24, 1440, 1440.12, Infinity
AnnualFields ==
    { Undefined, NumV(Whole(-120)), NumV(Num(2399, 100)), NumV(Whole(24)),
      NumV(Whole(1440)), NumV(Num(144012, 100)), NumV(PosInf) }

\* confidence fields: missing, 0.44, 0.45, 0.9, NaN
ConfidenceFields ==
    { Undefined, NumV(Num(44, 100)), NumV(Num(45, 100)), NumV(Num(9, 10)), NumV(NaN) }

\* the records handed to the classifier; null and undefined stand for a
\* missing element of the feed
ClassifierRows ==
    { Null, Undefined } \cup
    { Row(m, c, a, n, f) : m \in MerchantFields, c \in CadenceFields, a \in AvgFields,
                           n \in AnnualFields, f \in ConfidenceFields }

\* the two predicates of the card applied to the record
Classify ==
    /\ ~tags.set
    /\ tags' = [set |-> TRUE,
                isRealSubscription |-> looksLikeRealSubscription(record),
                isPreferred |-> isPreferredSubscription(record)]
    /\ UNCHANGED <<notClassifier, record>>

InitClassifierRun ==
    /\ storage = NoItem
    /\ InitCards
    /\ record \in ClassifierRows
    /\ tags = NoTags
    /\ InitCall
    /\ InitPanels

NextClassifier == Classify

SpecClassifier == InitClassifierRun /\ [][NextClassifier]_vars

(***************************************************************************)
(* Properties of the classifier                                            *)
(***************************************************************************)
\* the numeric reading of field f of record r (NaN when the field is missing)
FieldNumber(r, f) == ToNumber(GetOpt(r, f))

\* the merchant name of r: trimmed, lowercased, whitespace runs collapsed
NormalizedName(r) ==
    LET m == GetOpt(r, "merchant")
    IN  IF m.t = "string" THEN CollapseWhiteSpace(ToLowerCase(Trim(m.s))) ELSE <<>>

\* the cadence of r, lowercased
LowerCadence(r) ==
    LET c == GetOpt(r, "cadence")
    IN  IF c.t = "string" THEN ToLowerCase(c.s) ELSE <<>>

NameHasBlockTerm(r) ==
    \E i \in 1..Len(SUBS_BLOCK_PATTERNS) : Includes(NormalizedName(r), SUBS_BLOCK_PATTERNS[i])

NameHasAllowTerm(r) ==
    \E i \in 1..Len(SUBS_ALLOW_PATTERNS) : Includes(NormalizedName(r), SUBS_ALLOW_PATTERNS[i])

FinitePositive(x) == IsFinite(x) /\ Greater(x, Whole(0))

\* annualizedCost / 12 when that is finite and > 0, avgAmount otherwise
MonthlyEquivalent(r) ==
    IF FinitePositive(DivBy(FieldNumber(r, "annualized_cost"), 12))
    THEN DivBy(FieldNumber(r, "annualized_cost"), 12)
    ELSE FieldNumber(r, "avg_amount")

NameCondition(r) == NormalizedName(r) # <<>>
CadenceCondition(r) == LowerCadence(r) \in {MONTHLY_TEXT, ANNUAL_TEXT}
BlockCondition(r) == ~NameHasBlockTerm(r)
AvgCondition(r) == FinitePositive(FieldNumber(r, "avg_amount"))
MonthlyCondition(r) ==
    GreaterEq(MonthlyEquivalent(r), Whole(2)) /\ LessEq(MonthlyEquivalent(r), Whole(120))
ConfidenceCondition(r) ==
    IsFinite(FieldNumber(r, "confidence")) /\ GreaterEq(FieldNumber(r, "confidence"), Num(45, 100))

SixConditions(r) ==
    /\ NameCondition(r)
    /\ CadenceCondition(r)
    /\ BlockCondition(r)
    /\ AvgCondition(r)
    /\ MonthlyCondition(r)
    /\ ConfidenceCondition(r)

\* C8: a record is tagged a real subscription if and only if its normalized
\* name is non-empty, its cadence is monthly or annual whatever the case, the
\* name has no block-list term, avg_amount is finite and > 0, the monthly
\* equivalent lies in [2, 120] and the confidence is finite and >= 0.45
C8_RealIffSixConditions ==
    tags.set => (tags.isRealSubscription <=> SixConditions(record))

\* an accepted record that sits on three inclusive bounds at once: monthly
\* equivalent 120 from an annualized cost of 1440, confidence 0.45
C8_Witness ==
    /\ tags.set
    /\ tags.isRealSubscription
    /\ SixConditions(record)
    /\ MonthlyEquivalent(record) = Whole(120)
    /\ FieldNumber(record, "avg_amount") = Num(12001, 100)
    /\ FieldNumber(record, "confidence") = Num(45, 100)
    /\ LowerCadence(record) = ANNUAL_TEXT

\* C9: a record whose normalized name contains a block-list term is never
\* tagged a real subscription, whatever its cadence, amounts and confidence
\* and whether or not the name also matches the allow list
C9_BlockListWins ==
    (tags.set /\ NameHasBlockTerm(record)) => ~tags.isRealSubscription

\* a rejected record on both lists whose other five conditions all hold
C9_Witness ==
    /\ tags.set
    /\ NameHasBlockTerm(record)
    /\ NameHasAllowTerm(record)
    /\ tags.isPreferred
    /\ NameCondition(record) /\ CadenceCondition(record) /\ AvgCondition(record)
    /\ MonthlyCondition(record) /\ ConfidenceCondition(record)
    /\ ~tags.isRealSubscription


\* annualized_cost is a finite number whose twelfth lies in [2, 120]
AnnualInRange(r) ==
    /\ IsFinite(FieldNumber(r, "annualized_cost"))
    /\ GreaterEq(DivBy(FieldNumber(r, "annualized_cost"), 12), Whole(2))
    /\ LessEq(DivBy(FieldNumber(r, "annualized_cost"), 12), Whole(120))

\* C11 as stated: a record is rejected as soon as one of avg_amount,
\* annualized_cost and confidence is missing, non-finite or out of range
C11_AnyBadFieldRejects ==
    (tags.set /\ (~AvgCondition(record) \/ ~AnnualInRange(record) \/ ~ConfidenceCondition(record)))
        => ~tags.isRealSubscription

\* C11: a record is rejected when avg_amount or confidence is missing,
\* non-finite or out of range, or when the monthly equivalent (a twelfth of
\* annualized_cost if that is finite and > 0, avg_amount otherwise) lies
\* outside [2, 120]; a missing, non-finite or non-positive annualized_cost
\* alone does not reject it
C11_FailsClosed ==
    (tags.set /\ (~AvgCondition(record) \/ ~MonthlyCondition(record) \/ ~ConfidenceCondition(record)))
        => ~tags.isRealSubscription

\* a record rejected for its missing confidence alone
C11_Witness ==
    /\ tags.set
    /\ ~tags.isRealSubscription
    /\ GetOpt(record, "confidence") = Undefined
    /\ NameCondition(record) /\ CadenceCondition(record) /\ BlockCondition(record)
    /\ AvgCondition(record) /\ MonthlyCondition(record)


(***************************************************************************)
(* The card over a stored goal and a feed of records                       *)
(***************************************************************************)
MaxFeed == 3

\* eligible and not preferred, 240 a year
GenericRow ==
    Row(StrV(GENERIC), StrV(MONTHLY_TEXT), NumV(Whole(20)), NumV(Whole(240)), NumV(Num(9, 10)))

\* eligible and not preferred, 240 a year like GenericRow
BackupRow ==
    Row(StrV(<<"C", "l", "o", "u", "d", " ", "B", "a", "c", "k", "u", "p">>), StrV(ANNUAL_TEXT), NumV(Whole(240)), NumV(Whole(240)), NumV(Num(1, 2)))

\* preferred names that fail the confidence, the block list, the cadence and
\* the amount check
LowConfidenceRow ==
    Row(StrV(NETFLIX), StrV(MONTHLY_TEXT), NumV(Whole(15)), NumV(Whole(180)), NumV(Num(3, 10)))

BlockedRow ==
    Row(StrV(SPOTIFY_STUDENT), StrV(MONTHLY_TEXT), NumV(Whole(10)), NumV(Whole(120)), NumV(Num(9, 10)))

WeeklyRow ==
    Row(StrV(<<"H", "u", "l", "u">>), StrV(WEEKLY_TEXT), NumV(Whole(8)), NumV(Whole(416)), NumV(Num(9, 10)))

CostlyRow ==
    Row(StrV(<<"A", "p", "p", "l", "e">>), StrV(MONTHLY_TEXT), NumV(Whole(200)), NumV(Whole(2400)), NumV(Num(9, 10)))

\* eligible and preferred, 96 a year
HuluRow ==
    Row(StrV(<<"H", "u", "l", "u">>), StrV(MONTHLY_TEXT), NumV(Whole(8)), NumV(Whole(96)), NumV(Num(9, 10)))

\* eligible and not preferred through its avg_amount of 50: no annualized_cost
UnratedRow ==
    Row(StrV(GENERIC), StrV(MONTHLY_TEXT), NumV(Whole(50)), Undefined, NumV(Num(9, 10)))

\* malformed: no merchant
NamelessRow ==
    Row(Undefined, StrV(MONTHLY_TEXT), NumV(Whole(20)), NumV(Whole(240)), NumV(Num(9, 10)))

\* malformed: avg_amount is no number and confidence is missing
UnpricedRow ==
    Row(StrV(NETFLIX), StrV(MONTHLY_TEXT), StrV(<<"a", "b", "c">>), NumV(Whole(180)), Undefined)

\* the records a feed is made of; null stands for a malformed element
EngineRows ==
    { NetflixRow, HuluRow, GenericRow, BackupRow, UnratedRow, LowConfidenceRow, BlockedRow,
      WeeklyRow, CostlyRow, NamelessRow, UnpricedRow, Null }

\* every feed of at most MaxFeed records
EngineFeeds == UNION { [1..n -> EngineRows] : n \in 0..MaxFeed }


\* the goals found in storage: 100 by 2030-01-01, 1200 by 2026-11-01
EngineStorage ==
    { JObject(JNumber(<<"1", "0", "0">>), JString(DATE_2030)),
      JObject(JNumber(<<"1", "2", "0", "0">>), JString(<<"2", "0", "2", "6", "-", "1", "1", "-", "0", "1">>)) }

InitEngine ==
    /\ storage \in EngineStorage
    /\ InitCards
    /\ InitClassifier
    /\ InitCall
    /\ InitPanels

\* the pending request of card c resolves with one of the feeds
ResolveWithFeed(c) ==
    /\ fetch[c] = "pending"
    /\ \E feed \in EngineFeeds : FetchResolve(c, Response(feed))

NextEngine ==
    \/ Mount(1)
    \/ ResolveWithFeed(1)
    \/ FetchReject(1)

SpecEngine == InitEngine /\ [][NextEngine]_vars

(***************************************************************************)
(* Properties of the recommender                                           *)
(***************************************************************************)
\* the records of the feeds that the classifier accepts, and those whose name
\* matches the allow list
AcceptedRows == { r \in EngineRows : looksLikeRealSubscription(r) }
AllowListedRows == { r \in EngineRows : NameHasAllowTerm(r) }

\* the positions of feed whose record the classifier accepts
EligiblePositions(feed) == { i \in 1..Len(feed) : feed[i] \in AcceptedRows }

\* C10: every record among the candidates is accepted by the classifier, and
\* the candidates are counted without the rejected records, preferred or not
C10_CandidatesAreReal ==
    \A c \in Cards :
        computed[c].set =>
            /\ \A i \in 1..Len(computed[c].topTwo) :
                   computed[c].topTwo[i] \in AcceptedRows
            /\ computed[c].totalCandidates = Cardinality(EligiblePositions(subs[c]))

\* a feed of a preferred name with low confidence, a preferred name on the
\* block list and one accepted record: only the last is a candidate
C10_Witness ==
    /\ fetch[1] = "settled"
    /\ computed[1].set
    /\ subs[1] = <<LowConfidenceRow, BlockedRow, GenericRow>>
    /\ isPreferredSubscription(LowConfidenceRow) /\ isPreferredSubscription(BlockedRow)
    /\ computed[1].topTwo = <<GenericRow>>
    /\ computed[1].totalCandidates = 1


\* a malformed record: null or undefined, no merchant, or neither a numeric
\* avg_amount nor a numeric confidence
MalformedRecord(r) ==
    \/ IsNullish(r)
    \/ GetOpt(r, "merchant") = Undefined
    \/ ~IsFinite(FieldNumber(r, "avg_amount")) /\ ~IsFinite(FieldNumber(r, "confidence"))

\* feed without its record at position p
Without(feed, p) == SubSeq(feed, 1, p - 1) \o SubSeq(feed, p + 1, Len(feed))

\* candidates, monthly value and coverage of a projection
PlanOf(projection) ==
    <<projection.topTwo, projection.cancelMonthly, projection.coveragePct,
      projection.coveragePctDisplay, projection.totalCandidates>>

\* C12: with a goal set, a feed that holds a malformed record at any position
\* raises no error and gives the candidates, the monthly value and the
\* coverage of the feed without that record
C12_BadRecordIsSkipped ==
    \A c \in Cards :
        (goal[c].set /\ fetch[c] = "settled") =>
            /\ computed[c] # RenderError
            /\ computed[c].set
            /\ \A p \in 1..Len(subs[c]) :
                   MalformedRecord(subs[c][p]) =>
                       PlanOf(computed[c]) = PlanOf(Computed(goal[c], Without(subs[c], p), now))

\* a null record between two accepted records, and both are the candidates
C12_Witness ==
    /\ goal[1].set
    /\ fetch[1] = "settled"
    /\ subs[1] = <<GenericRow, Null, NetflixRow>>
    /\ computed[1].set
    /\ computed[1].topTwo = <<NetflixRow, GenericRow>>


\* the positions of feed with an accepted record whose name matches the allow
\* list, and with an accepted record whose name does not
PreferredPositions(feed) ==
    { i \in EligiblePositions(feed) : feed[i] \in AllowListedRows }

FallbackPositions(feed) ==
    { i \in EligiblePositions(feed) : feed[i] \notin AllowListedRows }

AtMostTwo(n) == IF n < 2 THEN n ELSE 2

\* the number of records of rows whose name matches the allow list
PreferredAmong(rows) == Cardinality({ i \in 1..Len(rows) : rows[i] \in AllowListedRows })

\* top is a selection of two from a feed ranked preferred first
PreferredFirst(top, feed) ==
    /\ Len(top) = AtMostTwo(Cardinality(EligiblePositions(feed)))
    /\ (PreferredPositions(feed) # {} /\ FallbackPositions(feed) # {})
           => top[1] \in AllowListedRows
    /\ PreferredAmong(top) = AtMostTwo(Cardinality(PreferredPositions(feed)))
    /\ (PreferredAmong(top) < Len(top)) => Cardinality(PreferredPositions(feed)) < 2

\* C13: topTwo holds min(2, number of accepted records) records; when an
\* accepted preferred and an accepted fallback record exist a preferred one
\* comes first whatever its cost; a fallback record is selected only when
\* fewer than two accepted preferred records exist
C13_PreferredFirst ==
    \A c \in Cards : computed[c].set => PreferredFirst(computed[c].topTwo, subs[c])

\* the costliest accepted record is a fallback one and is not selected: two
\* cheaper preferred ones are
C13_Witness ==
    /\ computed[1].set
    /\ subs[1] = <<GenericRow, HuluRow, NetflixRow>>
    /\ computed[1].topTwo = <<NetflixRow, HuluRow>>
    /\ Less(FieldNumber(NetflixRow, "annualized_cost"), FieldNumber(GenericRow, "annualized_cost"))
    /\ GenericRow \in AcceptedRows


\* the annualized cost a record is ranked by, 0 when it has none
CostOf(r) ==
    IF IsFinite(FieldNumber(r, "annualized_cost")) THEN FieldNumber(r, "annualized_cost")
    ELSE Whole(0)

SamePartition(a, b) == a \in AllowListedRows <=> b \in AllowListedRows

Selected(r, top) == \E k \in 1..Len(top) : top[k] = r

\* the first position of r in feed
FirstPosition(r, feed) == CHOOSE i \in 1..Len(feed) : feed[i] = r /\ \A j \in 1..(i - 1) : feed[j] # r

\* within a partition the selected records are in descending order of cost
\* and no accepted record left out costs more than a selected one
DescendingInPartition(top, feed) ==
    /\ \A j \in 1..(Len(top) - 1) :
           SamePartition(top[j], top[j + 1]) => GreaterEq(CostOf(top[j]), CostOf(top[j + 1]))
    /\ \A i \in EligiblePositions(feed) : \A j \in 1..Len(top) :
           (SamePartition(feed[i], top[j]) /\ Greater(CostOf(feed[i]), CostOf(top[j])))
               => Selected(feed[i], top)

\* records of one partition with equal cost keep their input order
StableInPartition(top, feed) ==
    /\ \A j \in 1..(Len(top) - 1) :
           (SamePartition(top[j], top[j + 1]) /\ CostOf(top[j]) = CostOf(top[j + 1]))
               => FirstPosition(top[j], feed) <= FirstPosition(top[j + 1], feed)
    /\ \A i \in EligiblePositions(feed) : \A j \in 1..Len(top) :
           (SamePartition(feed[i], top[j]) /\ CostOf(feed[i]) = CostOf(top[j])
                /\ ~Selected(feed[i], top))
               => FirstPosition(top[j], feed) < i

\* C14: within the preferred and within the fallback partition the ranking
\* is descending by annualized cost, and records of equal cost appear in
\* their input order
C14_DescendingAndStable ==
    \A c \in Cards :
        computed[c].set =>
            /\ DescendingInPartition(computed[c].topTwo, subs[c])
            /\ StableInPartition(computed[c].topTwo, subs[c])

\* three fallback records: two of equal cost selected in input order, the
\* cheaper one between them left out
C14_Witness ==
    /\ computed[1].set
    /\ subs[1] = <<BackupRow, UnratedRow, GenericRow>>
    /\ computed[1].topTwo = <<BackupRow, GenericRow>>
    /\ CostOf(BackupRow) = CostOf(GenericRow)
    /\ Less(CostOf(UnratedRow), CostOf(GenericRow))

\* the accepted positions of feed whose record is not among top
LeftOut(top, feed) == { i \in EligiblePositions(feed) : ~Selected(feed[i], top) }

\* C23 as stated: two accepted records of different cost are ordered by cost,
\* the costlier first, whatever their tags
C23_TagOnlyBreaksTies ==
    \A c \in Cards :
        computed[c].set =>
            /\ \A j \in 1..(Len(computed[c].topTwo) - 1) :
                   GreaterEq(CostOf(computed[c].topTwo[j]), CostOf(computed[c].topTwo[j + 1]))
            /\ \A i \in LeftOut(computed[c].topTwo, subs[c]) :
                   \A j \in 1..Len(computed[c].topTwo) :
                       GreaterEq(CostOf(computed[c].topTwo[j]), CostOf(subs[c][i]))

\* a goes before b: a is preferred and b is not, or they carry the same tag
\* and a costs at least as much
Outranks(a, b) ==
    \/ a \in AllowListedRows /\ b \notin AllowListedRows
    \/ SamePartition(a, b) /\ GreaterEq(CostOf(a), CostOf(b))

\* C23: the preferred tag comes before the cost: of two accepted records the
\* preferred one is ranked first whatever the costs, and the cost decides
\* only between records with the same tag; the tag does not gate
\* eligibility, a record without it is selected when a place is left
C23_TagBeforeCost ==
    \A c \in Cards :
        computed[c].set =>
            /\ \A j \in 1..(Len(computed[c].topTwo) - 1) :
                   Outranks(computed[c].topTwo[j], computed[c].topTwo[j + 1])
            /\ \A i \in LeftOut(computed[c].topTwo, subs[c]) :
                   \A j \in 1..Len(computed[c].topTwo) :
                       Outranks(computed[c].topTwo[j], subs[c][i])
            /\ LeftOut(computed[c].topTwo, subs[c]) # {} => Len(computed[c].topTwo) = 2

\* Hulu (96 a year, preferred) is ranked before Generic Streaming Co (240 a
\* year, not preferred), which is selected as well
C23_Witness ==
    /\ computed[1].set
    /\ subs[1] = <<GenericRow, HuluRow>>
    /\ computed[1].topTwo = <<HuluRow, GenericRow>>
    /\ Less(CostOf(HuluRow), CostOf(GenericRow))
    /\ HuluRow \in AllowListedRows
    /\ GenericRow \notin AllowListedRows

\* C28: each selected candidate contributes the monthly equivalent the
\* classifier bound-checked, so a plan of k candidates has a monthly value
\* between 2 * k and 120 * k, also for records accepted through avg_amount
C28_MonthlyValueBounded ==
    \A c \in Cards :
        computed[c].set =>
            /\ GreaterEq(computed[c].cancelMonthly, Whole(2 * Len(computed[c].topTwo)))
            /\ LessEq(computed[c].cancelMonthly, Whole(120 * Len(computed[c].topTwo)))


(***************************************************************************)
(* Properties of the projection                                            *)
(***************************************************************************)
\* the sum of the annualized costs of at most two records
TotalCost(top) ==
    CASE Len(top) = 0 -> Whole(0)
      [] Len(top) = 1 -> CostOf(top[1])
      [] OTHER -> Plus(CostOf(top[1]), CostOf(top[2]))

\* C15: cancelMonthly is a twelfth of the sum of the selected records'
\* annualized costs; a feed without accepted record gives no candidate, a
\* monthly value of 0 and a coverage of 0
C15_MonthlyValueIsSum ==
    \A c \in Cards :
        computed[c].set =>
            /\ Len(computed[c].topTwo) <= 2
            /\ computed[c].cancelMonthly = DivBy(TotalCost(computed[c].topTwo), 12)
            /\ EligiblePositions(subs[c]) = {} =>
                   /\ computed[c].topTwo = <<>>
                   /\ computed[c].cancelMonthly = Whole(0)
                   /\ computed[c].coveragePct = Whole(0)
                   /\ computed[c].coveragePctDisplay = Whole(0)

\* Netflix (180) and Generic Streaming Co (240) are worth 35 a month
C15_Witness ==
    /\ computed[1].set
    /\ computed[1].topTwo = <<NetflixRow, GenericRow>>
    /\ computed[1].cancelMonthly = Whole(35)

\* the records of the feed that the filter accepts, in feed order
EligibleRecords(feed) == SelectSeq(feed, looksLikeRealSubscription)

\* the feed's accepted records are Netflix and Generic Streaming Co, once each
NetflixAndGeneric(feed) ==
    \/ EligibleRecords(feed) = <<NetflixRow, GenericRow>>
    \/ EligibleRecords(feed) = <<GenericRow, NetflixRow>>

\* C20: a goal of 1200 with 10 months remaining and the accepted records Netflix
\* (180 a year, preferred) and Generic Streaming Co (240 a year, not preferred)
\* give topTwo = [Netflix, Generic Streaming Co], cancelMonthly = 35,
\* requiredMonthly = 120, coveragePct = 29.17 to two decimals and
\* coveragePctDisplay = 29
C20_ScenarioOne ==
    \A c \in Cards :
        (/\ computed[c].set
         /\ goal[c].targetAmount = Whole(1200)
         /\ computed[c].monthsRemaining = Whole(10)
         /\ NetflixAndGeneric(subs[c])) =>
            /\ isPreferredSubscription(NetflixRow) /\ ~isPreferredSubscription(GenericRow)
            /\ computed[c].topTwo = <<NetflixRow, GenericRow>>
            /\ computed[c].cancelMonthly = Whole(35)
            /\ computed[c].requiredMonthly = Whole(120)
            /\ Less(Num(29165, 1000), computed[c].coveragePct)
            /\ Less(computed[c].coveragePct, Num(29175, 1000))
            /\ computed[c].coveragePctDisplay = Whole(29)

\* the feed lists Generic Streaming Co before Netflix, with a rejected record
\* in between
C20_Witness ==
    /\ computed[1].set
    /\ goal[1].targetAmount = Whole(1200)
    /\ computed[1].monthsRemaining = Whole(10)
    /\ subs[1] = <<GenericRow, BlockedRow, NetflixRow>>
    /\ computed[1].totalCandidates = 2
    /\ computed[1].coveragePct = Num(175, 6)
    /\ computed[1].coveragePctDisplay = Whole(29)


(***************************************************************************)
(* monthsBetween on its own                                                *)
(***************************************************************************)
\* Dates: invalid, 2026-01-01 at 00:00:00, at 13:20:38.4 and at 13:26:24 (from
\* where 2026-02-01 is 30.444 and 30.44 days away), 2026-01-31, 2026-02-01,
\* 2026-02-10 and 2030-01-01
DateValues ==
    { InvalidDate, DateAt(Whole(0)), DateAt(Num(139, 250)), DateAt(Num(14, 25)),
      DateAt(Whole(30)), DateAt(Whole(31)), DateAt(Whole(40)), DateAt(Whole(1461)) }

MonthsCalls == { [fn |-> "monthsBetween", now |-> n, target |-> t] : n, t \in DateValues }

\* monthsBetween(call.now, call.target) returns
CallMonthsBetween ==
    /\ call.fn = "monthsBetween"
    /\ ~returned.set
    /\ returned' = [set |-> TRUE, value |-> monthsBetween(call.now, call.target)]
    /\ UNCHANGED <<notCall, call>>

InitMonths ==
    /\ storage = NoItem
    /\ InitCards
    /\ InitClassifier
    /\ call \in MonthsCalls
    /\ returned = NoReturn
    /\ InitPanels

NextMonths == CallMonthsBetween

SpecMonths == InitMonths /\ [][NextMonths]_vars

\* x is an integer >= 1
WholeFromOne(x) == x.t = "num" /\ x.d = 1 /\ x.n >= 1

\* target is a valid date strictly after the valid date from
StrictlyAfter(target, from) ==
    target.valid /\ from.valid /\ Greater(target.days, from.days)

\* C16: monthsBetween returns an integer >= 1 for all dates; an invalid now,
\* an invalid target, a target equal to now and a target before now give 1
C16_AtLeastOneMonth ==
    (call.fn = "monthsBetween" /\ returned.set) =>
        /\ WholeFromOne(returned.value)
        /\ ~StrictlyAfter(call.target, call.now) => returned.value = Whole(1)

\* the target is a valid date ten days before now
C16_Witness ==
    /\ call.fn = "monthsBetween"
    /\ returned.set
    /\ call.now = DateAt(Whole(40))
    /\ call.target = DateAt(Whole(30))
    /\ returned.value = Whole(1)


(***************************************************************************)
(* The card over stored goals at several clock readings                    *)
(***************************************************************************)
DATE_FEB_2026 == <<"2", "0", "2", "6", "-", "0", "2", "-", "0", "1">>
DATE_JAN_2026 == <<"2", "0", "2", "6", "-", "0", "1", "-", "0", "1">>

\* the goals found in storage: 100 by 2026-02-01, 1200 by 2026-11-01,
\* 250 by 2026-01-01 and 100 by "soon"
ProjectionStorage ==
    { JObject(JNumber(<<"1", "0", "0">>), JString(DATE_FEB_2026)),
      JObject(JNumber(<<"1", "2", "0", "0">>),
              JString(<<"2", "0", "2", "6", "-", "1", "1", "-", "0", "1">>)),
      JObject(JNumber(<<"2", "5", "0">>), JString(DATE_JAN_2026)),
      JObject(JNumber(<<"1", "0", "0">>), JString(DATE_SOON)) }

\* the clock when the page is opened: 2026-01-01 at 00:00:00, at 13:20:38.4
\* and at 13:26:24, 2026-01-31, 2026-02-01 and 2026-02-10 at 00:00:00
ClockReadings == { Whole(0), Num(139, 250), Num(14, 25), Whole(30), Whole(31), Whole(40) }

ProjectionResponses == CardResponses \cup { Response(<<NetflixRow, GenericRow>>) }

InitProjection ==
    /\ storage \in ProjectionStorage
    /\ now \in ClockReadings
    /\ mounted = [c \in Cards |-> FALSE]
    /\ crashed = [c \in Cards |-> FALSE]
    /\ goal = [c \in Cards |-> NoGoal]
    /\ editing = [c \in Cards |-> FALSE]
    /\ amountInput = [c \in Cards |-> <<>>]
    /\ dateInput = [c \in Cards |-> <<>>]
    /\ errorText = [c \in Cards |-> NO_ERROR]
    /\ subs = [c \in Cards |-> <<>>]
    /\ subsLoading = [c \in Cards |-> FALSE]
    /\ computed = [c \in Cards |-> NoComputed]
    /\ fetch = [c \in Cards |-> "none"]
    /\ stale = [c \in Cards |-> 0]
    /\ InitClassifier
    /\ InitCall
    /\ InitPanels

NextProjection ==
    \/ Mount(1)
    \/ \E res \in ProjectionResponses : FetchResolve(1, res)
    \/ FetchReject(1)

SpecProjection == InitProjection /\ [][NextProjection]_vars

\* the Date the projection reads the goal's target date as
TargetOf(g) == ParseDateTime(g.targetDate \o T_MIDNIGHT)

\* the days from the clock reading to the target of goal g
DaysLeft(g) == Minus(TargetOf(g).days, now)

\* k is the least whole number of months of 30.44 days that hold the days
CeilingOfMonths(k, days) ==
    /\ WholeFromOne(k)
    /\ LessEq(days, Times(k, Num(3044, 100)))
    /\ Greater(days, Times(Minus(k, Whole(1)), Num(3044, 100)))

\* C17: for a valid target date strictly after now, monthsRemaining is the
\* day difference divided by 30.44 and rounded up, and requiredMonthly is
\* targetAmount / monthsRemaining
C17_MonthsRoundedUp ==
    \A c \in Cards :
        (computed[c].set /\ StrictlyAfter(TargetOf(goal[c]), DateAt(now))) =>
            /\ CeilingOfMonths(computed[c].monthsRemaining, DaysLeft(goal[c]))
            /\ Times(computed[c].requiredMonthly, computed[c].monthsRemaining)
                   = goal[c].targetAmount

\* exactly 30.44 days are left: one month, and the whole amount a month
C17_Witness ==
    /\ computed[1].set
    /\ goal[1].targetDate = DATE_FEB_2026
    /\ DaysLeft(goal[1]) = Num(3044, 100)
    /\ computed[1].monthsRemaining = Whole(1)
    /\ computed[1].requiredMonthly = Whole(100)


(***************************************************************************)
(* The coverage percentage on its own: rawPct, coveragePct and             *)
(* coveragePctDisplay from cancelMonthly and requiredMonthly               *)
(***************************************************************************)
\* cancelMonthly: sums of annualized costs over 12, Infinity for a cost the
\* response gives as 1e999
CancelValues ==
    { Whole(0), Num(1, 2), Num(149, 100), Num(3, 2), Whole(35), Whole(249),
      Num(499, 2), Whole(250), Num(2501, 10), Num(501, 2), Whole(999),
      Whole(1000), PosInf }

\* requiredMonthly: targetAmount / monthsRemaining, and 0
RequiredValues == { Whole(0), Whole(1), Whole(100), Whole(120), Whole(200) }

CoverageCalls ==
    { [fn |-> "coverage", cancelMonthly |-> c, requiredMonthly |-> r] :
        c \in CancelValues, r \in RequiredValues }

\* the three statements on call.cancelMonthly and call.requiredMonthly
CoverageOf(rawPct) ==
    [set |-> TRUE,
     coveragePct |-> CoveragePct(rawPct),
     coveragePctDisplay |-> CoveragePctDisplay(CoveragePct(rawPct))]

CallCoverage ==
    /\ call.fn = "coverage"
    /\ ~returned.set
    /\ returned' = CoverageOf(RawPct(call.cancelMonthly, call.requiredMonthly))
    /\ UNCHANGED <<notCall, call>>

InitCoverage ==
    /\ storage = NoItem
    /\ InitCards
    /\ InitClassifier
    /\ call \in CoverageCalls
    /\ returned = NoReturn
    /\ InitPanels

NextCoverage == CallCoverage

SpecCoverage == InitCoverage /\ [][NextCoverage]_vars

\* lo <= x <= hi, x a number
Within(x, lo, hi) == x.t = "num" /\ LessEq(Whole(lo), x) /\ LessEq(x, Whole(hi))

\* x is 0 or more, Infinity included
NonNegative(x) == x.t # "nan" /\ ~Less(x, Whole(0))

\* C18: for non-negative cancelMonthly and requiredMonthly coveragePct is in
\* [0, 999] and coveragePctDisplay in [0, 250]; requiredMonthly = 0 gives
\* coveragePct = 0
C18_PercentagesInRange ==
    (/\ call.fn = "coverage"
     /\ returned.set
     /\ NonNegative(call.cancelMonthly)
     /\ NonNegative(call.requiredMonthly)) =>
        /\ Within(returned.coveragePct, 0, 999)
        /\ Within(returned.coveragePctDisplay, 0, 250)
        /\ call.requiredMonthly = Whole(0) => returned.coveragePct = Whole(0)

\* ten times the required amount is freed: limited to 999 and shown as 250
C18_Witness ==
    /\ call.fn = "coverage"
    /\ returned.set
    /\ call.cancelMonthly = Whole(1000)
    /\ call.requiredMonthly = Whole(100)
    /\ returned.coveragePct = Whole(999)
    /\ returned.coveragePctDisplay = Whole(250)

\* clamp(x, lo, hi) of a number x
Clamp(x, lo, hi) ==
    IF Less(x, Whole(lo)) THEN Whole(lo) ELSE IF Greater(x, Whole(hi)) THEN Whole(hi) ELSE x

\* k is the integer nearest to x, the upper one of two equally near
NearestInteger(k, x) ==
    /\ k.t = "num" /\ k.d = 1
    /\ LessEq(Minus(k, Num(1, 2)), x)
    /\ Less(x, Plus(k, Num(1, 2)))

\* C19: for coveragePct in [0, 999], coveragePctDisplay is
\* round(clamp(coveragePct, 0, 250))
C19_RoundOfClamp ==
    (/\ call.fn = "coverage"
     /\ returned.set
     /\ Within(returned.coveragePct, 0, 999)) =>
        NearestInteger(returned.coveragePctDisplay, Clamp(returned.coveragePct, 0, 250))

\* 249.5 is shown as 250
C19_Witness ==
    /\ call.fn = "coverage"
    /\ returned.set
    /\ returned.coveragePct = Num(499, 2)
    /\ returned.coveragePctDisplay = Whole(250)



(***************************************************************************)
(* Two mounts of the card over one stored goal while the clock advances    *)
(***************************************************************************)
\* time passes: a later new Date() reads a later value.  Nothing is
\* re-rendered: the clock is no dependency of useMemo
Tick ==
    /\ \E t \in ClockReadings : Greater(t, now) /\ now' = t
    /\ UNCHANGED <<storage, cardVars, classifierVars, callVars, panelVars>>

InitClock ==
    /\ storage \in ProjectionStorage
    /\ InitCards
    /\ InitClassifier
    /\ InitCall
    /\ InitPanels

NextClock ==
    \/ \E c \in Cards :
           \/ Mount(c)
           \/ \E res \in ProjectionResponses : FetchResolve(c, res)
           \/ FetchReject(c)
    \/ Tick

SpecClock == InitClock /\ [][NextClock]_vars

\* two evaluations, the latest of card c and of card d, had the same goal
\* and the same records
SameInputs(c, d) ==
    /\ computed[c].set /\ computed[d].set
    /\ goal[c] = goal[d]
    /\ subs[c] = subs[d]

EvaluationCalls ==
    { [fn |-> "computed", goal |-> Goal(Whole(100), DATE_2030), subs |-> feed] :
        feed \in EngineFeeds }

\* the callback of useMemo runs on call.goal and call.subs: it reads the
\* goal's two fields and the records' fields, assigns to none of them and
\* calls nothing of localStorage
CallComputed ==
    /\ call.fn = "computed"
    /\ ~returned.set
    /\ returned' = [set |-> TRUE,
                    value |-> Computed(call.goal, call.subs, now),
                    goal |-> call.goal,
                    subs |-> ArraysAfter(call.subs).subs]
    /\ UNCHANGED <<notCall, call>>

InitEvaluation ==
    /\ storage = JObject(JNumber(<<"1", "0", "0">>), JString(DATE_2030))
    /\ InitCards
    /\ InitClassifier
    /\ call \in EvaluationCalls
    /\ returned = NoReturn
    /\ InitPanels

NextEvaluation == CallComputed

SpecEvaluation == InitEvaluation /\ [][NextEvaluation]_vars

InitModalPage ==
    /\ storage = NoItem
    /\ InitCards
    /\ InitClassifier
    /\ InitCall
    /\ modal = NoModal
    /\ effect = NoEffect
    /\ bodyOverflow \in OverflowStyles
    /\ keydown = {}
    /\ opened = NeverOpened
    /\ InitChat
    /\ InitInsights

NextModal ==
    \/ \E open \in BOOLEAN, onClose \in OnCloseProps : MountModal(open, onClose)
    \/ \E onClose \in OnCloseProps : OpenModal(onClose)
    \/ \E onClose \in OnCloseProps : SwapOnClose(onClose)
    \/ \E onClose \in OnCloseProps : CloseModal(onClose)
    \/ UnmountModal
    \/ PressEscape

SpecModal == InitModalPage /\ [][NextModal]_vars

ModalIsOpen == modal.mounted /\ modal.open

\* C24: while the modal is open the overflow of body is "hidden"; once it is
\* closed or unmounted, after any sequence of open, re-render with a new
\* onClose, close and unmount, the overflow of body is the one from before
\* the first opening and no keydown listener of the modal is registered
C24_ScrollLock ==
    /\ ModalIsOpen => bodyOverflow = "hidden"
    /\ ~ModalIsOpen =>
           /\ keydown = {}
           /\ opened.set => bodyOverflow = opened.overflow

\* the dialog was opened over a scrolling page, re-rendered twice with a new
\* onClose, closed with Escape and unmounted
C24_Witness ==
    /\ ~modal.mounted
    /\ opened.set /\ opened.overflow = "scroll"
    /\ opened.swaps = 2
    /\ opened.closeCalls = 1
    /\ bodyOverflow = "scroll"
    /\ keydown = {}

(***************************************************************************)
(* The chat widget on a page                                               *)
(***************************************************************************)
InitChatPage ==
    /\ storage = NoItem
    /\ InitCards
    /\ InitClassifier
    /\ InitCall
    /\ InitPanels

NextChat ==
    \/ ToggleWidget
    \/ \E text \in InputTexts : SetInput(text)
    \/ Send
    \/ \E req \in 1..(MaxSends + 1), data \in ChatResponses : ChatResolve(req, data)
    \/ \E req \in 1..(MaxSends + 1) : ChatReject(req)
    \/ RenderChat

SpecChat == InitChatPage /\ [][NextChat]_vars

\* the transcript with the replies that are not rendered yet
Transcript == messages \o queued.messages

\* the user message at position i has its reply right after it
Answered(log, i) ==
    /\ i < Len(log)
    /\ log[i + 1].role = "assistant"
    /\ log[i + 1].req = log[i].req

\* C29: at most one chat request is in flight; a send while an earlier one
\* has not completed changes nothing; every user message of the transcript
\* is followed by its own reply before the next user message, the last one
\* at the latest when its request has completed
C29_OneRequestInFlight ==
    /\ [](Cardinality(inFlight) <= 1)
    /\ [][inFlight # {} /\ Send => UNCHANGED vars]_vars
    /\ [](\A i \in 1..Len(Transcript) :
              Transcript[i].role = "user" =>
                  \/ Answered(Transcript, i)
                  \/ i = Len(Transcript) /\ inFlight = { Transcript[i].req })

\* two questions were sent and answered, the first with follow-ups, the
\* second after a failed request, and the user is typing a third
C29_Witness ==
    /\ sends = 2
    /\ inFlight = {}
    /\ ~loading
    /\ Len(messages) = 6
    /\ messages[2].role = "user" /\ messages[2].text = <<"h", "i">>
    /\ messages[3].role = "assistant" /\ messages[4].role = "assistant"
    /\ messages[5].role = "user" /\ messages[5].text = <<"o", "k">>
    /\ messages[6] = Message("assistant", CHAT_ERROR, 2)
    /\ input = <<"h", "i">>

(***************************************************************************)
(* The insight cards on a page                                             *)
(***************************************************************************)
InitInsightsPage ==
    /\ storage = NoItem
    /\ InitCards
    /\ InitClassifier
    /\ InitCall
    /\ InitPanels

\* the backend answers request r with n cards of the month r asked for
ResolveWithCards(r) ==
    \E shape \in PayloadShapes, n \in {0, 2, MaxCards} :
        InsightsResolve(r, InsightsResponse(shape, CardsFor(r.month, r.id, n)))

NextInsights ==
    \/ \E m \in Months : MountInsights(m)
    \/ \E m \in Months : ChangeMonth(m)
    \/ UnmountInsights
    \/ \E r \in requests : ResolveWithCards(r)
    \/ \E r \in requests, text \in ErrorMessages : InsightsReject(r, text)

SpecInsights == InitInsightsPage /\ [][NextInsights]_vars

\* a request whose effect has been cleaned up settles in this step
LateSettle == \E r \in requests : ~r.mounted /\ r \notin requests'

\* every request has settled
AllSettled == requests = {}

\* C30: the response or error of a request whose month is no longer shown,
\* or whose component is unmounted, leaves cards, errorText and loading as
\* they are; once every request has settled the cards are the ones returned
\* to the latest request, for the month shown, at most 5, and loading is false
C30_NoOutdatedResults ==
    /\ [][LateSettle => UNCHANGED <<cards, cardsErrorText, cardsLoading>>]_vars
    /\ [](Len(cards) <= 5)
    /\ []((panelMounted /\ AllSettled) =>
              /\ ~cardsLoading
              /\ \A i \in 1..Len(cards) :
                     cards[i] = [month |-> month, req |-> issued, k |-> i])

\* January was asked for, then February, then January again; the first two
\* requests settled late, and the six cards of the third are shown as five
C30_Witness ==
    /\ panelMounted
    /\ month = "2026-01"
    /\ issued = 3
    /\ AllSettled
    /\ ~cardsLoading
    /\ cards = CardsFor("2026-01", 3, 5)
    /\ cardsErrorText = ""

====
